---- MODULE Spec2Model ----
(***************************************************************************)
(* A model of the request schedulers of the AMBE vocoder library.          *)
(*                                                                         *)
(* MultiQueueScheduler (scheduler.cc): the scheduling thread `run', the    *)
(* producers submitAsync / recv / stop that push onto the synchronized     *)
(* `process' queue, and the chip behind a FifoDevice, which answers the    *)
(* packets written to it in the order they were written.                   *)
(*                                                                         *)
(* FifoScheduler (scheduler.cc): submitAsync / recv / stop under one       *)
(* mutex, in front of a TaggingDevice that may answer in any order.        *)
(*                                                                         *)
(* Packet (packet.h, packet.cc): the wire format, byte by byte: header,    *)
(* fields, parity field, the parsing constructor and finalize.             *)
(*                                                                         *)
(* API (api.cc): paritymode, soft and hard reset and the channel commands, *)
(* with the chip and the reader thread of the device.                      *)
(*                                                                         *)
(* Rate (api.cc): the constructor that parses a rate given as a string.    *)
(*                                                                         *)
(* DeviceManager (device.cc): add, acquireChannel and releaseChannel on the*)
(* channel pool of each registered device.                                 *)
(*                                                                         *)
(* AmbeService::bind (ambed.cc): the handler that forwards the requests of *)
(* a stream to the scheduler and writes the tagged responses back.         *)
(*                                                                         *)
(* UartDevice (serial.cc): the reader thread in safeCancellableRead, the   *)
(* bytes of the serial port, the cancellation pipe and stop.               *)
(*                                                                         *)
(* The scheduler of a three-channel device with clients that never stop    *)
(* (SpecFair); softReset called next to the running scheduling thread      *)
(* (SpecSend); the channel pool used by bind handlers on several threads   *)
(* (SpecPool); bind sessions from acquireChannel to return (SpecSession).  *)
(***************************************************************************)
EXTENDS Integers, Sequences, FiniteSets, TLC

(***************************************************************************)
(* Bounds of the model.                                                    *)
(***************************************************************************)
\* Number of submitAsync calls made on the MultiQueueScheduler in one run.
MaxRequests == 7
\* Number of packets with an empty payload the device may deliver in one run.
MaxEmpty == 1
\* Number of events waiting in `process': the scheduling thread lags the
\* producers by at most this many events.
MaxProcess == 1
\* Number of SPEECH (or CHANNEL) requests the clients keep outstanding, i.e.
\* submitted and not yet answered, on one channel: the pipeline depth of ambec.
MaxPipeline == 3
\* Number of CONTROL requests of one kind outstanding at a time: the API waits
\* for the answer of each control request, so this is the number of threads
\* that issue them.
MaxControl == 2
\* Number of submitAsync calls made on the FifoScheduler in one run.
MaxFifoRequests == 3
\* Number of packets the TaggingDevice delivers with a tag that no
\* outstanding request of the device carries (unknown or repeated tags).
MaxStray == 1
\* Number of requests of the FifoScheduler whose deadline expires before the
\* response arrives.
MaxDeadlines == 1
\* Number of payload bytes appended to a Packet before it is finalized.
MaxPayload == 5
\* Number of bytes of a string handed to the parsing constructor.
MaxBytes == 6
\* Number of requests the bind handlers of the RPC server read in one run.
MaxBindRequests == 3
\* Number of requests with an empty payload the bind handlers read.
MaxEmptyRequests == 1
\* Number of bytes that arrive on the serial port in one run.
MaxSerialBytes == 6
\* The largest payload length a header read from the serial port holds.
MaxSerialPayload == 2
\* Number of comma-separated words of a string given to Rate(const char*).
MaxWords == 7
\* Number of SPEECH requests the client of one channel keeps outstanding when
\* the clients never stop (the pipeline size given to ambec with -p).
MaxFairPipeline == 6
\* Number of channels those clients use.
MaxFairChannels == 2
\* Number of threads of the RPC server that run a bind handler at a time.
MaxPoolThreads == 2
\* Number of iterations of the loop of softReset that writes zero bytes (the
\* code makes ZeroSends of them).
MaxZeroSends == 2
\* Number of API calls made in one run, one after the other.
MaxOps == 2
\* Number of packets the device delivers while hardReset has its callback
\* installed.
MaxHrPackets == 2

(***************************************************************************)
(* Program constants.                                                      *)
(***************************************************************************)
\* enum PacketType (packet.h)
CONTROL == 0
CHANNEL == 1
SPEECH == 2

\* MultiQueueScheduler::queues_per_channel
queues_per_channel == 2
\* Usb3000::channels() and Usb3003::channels()
Usb3000Channels == 1
Usb3003Channels == 3

\* enum StartByte (packet.h)
START_BYTE == 97
\* enum FieldType (packet.h)
ECMODE == 5
DCMODE == 6
RATET == 9
RATEP == 10
INIT == 11
PARITY == 47
PRODID == 48
RESET == 51
READY == 57
PARITYMODE == 63
CHANNEL0 == 64
CHANNEL1 == 65
CHANNEL2 == 66
GAIN == 75
\* sizeof(Header), sizeof(ParityField), sizeof(StatusField)
sizeofHeader == 4
sizeofParityField == 2
sizeofStatusField == 2
sizeofField == 1
\* API::softReset: the length of `zero' and the bound of the loop
ZeroLength == 10
ZeroSends == 3500

VARIABLES
    \* ---- MultiQueueScheduler ----
    process,            \* SyncQueue<State>: events for the scheduling thread
    device_queue,       \* queue<State>: device-global requests
    channel_queue,      \* vector<queue<State>>, index 0 .. queues-1
    submitted,          \* queue<State>: transmitted, not yet answered
    submitted_by_type,  \* array<unsigned, MAX>, index 0 .. 2
    submitted_by_queue, \* vector<unsigned>, index 0 .. queues-1
    next,               \* run(): round-robin cursor
    quit,               \* run(): quit flag
    queued,             \* run(): number of filed, untransmitted requests
    terminated,         \* run(): optional<ResponseCallback>
    runner,             \* the scheduling thread: "none", "running", "exited"
    stopper,            \* the thread in stop(): "idle", "waiting", "joined"
    recvCallback,       \* FifoDevice: is a receive callback installed
    chip,               \* packets written to the chip and not yet answered
    \* ---- observation of the run ----
    nsubmit,            \* number of submitAsync calls made so far
    nsent,              \* number of device.send calls made so far
    delivered,          \* number of packets the device has delivered
    handled,            \* number of device packets run() has popped
    empties,            \* number of empty packets the device has delivered
    sent,               \* callback ids of the requests given to device.send
    invocations,        \* callback id -> number of times it was invoked
    stopPending,        \* requests not yet answered when stop() was called
    \* ---- FifoScheduler ----
    fifo_tag,           \* int32_t tag
    fifo_submitted,     \* unordered_map<int32_t, ResponseCallback>
    fifo_quit,          \* bool quit
    fifo_terminated,    \* promise<void>: "unset", "set", or "thrown" when
                        \* set_value was called on the satisfied promise
    fifo_stopper,       \* the thread in stop(): "none", "idle", "waiting", "done"
    fifo_recv,          \* TaggingDevice: is a receive callback installed
    wire,               \* tags the device accepted and has not answered yet
    \* ---- observation of the FifoScheduler ----
    fifo_sends,         \* tag given to device.send, by submission number
    fifo_accepted,      \* tags for which device.send returned normally
    fifo_calls,         \* callbacks invoked: [callback, tag], 0 for Packet()
    strays,             \* number of stray packets delivered so far
    fifo_reader,        \* the reader thread of the device: "running", or
                        \* "terminated" by an exception that left recv
    fifo_warned,        \* tags logged as "response with unknown tag"
    fifo_malformed,     \* tags of outstanding requests whose response
                        \* arrived malformed
    fifo_abandoned,     \* callbacks whose future the client gave up
    \* ---- Device ----
    uses_parity,        \* Device::uses_parity
    channels,           \* device.channels(), the `channels' argument of the
                        \* constructor of the MultiQueueScheduler
    \* ---- the API thread, the chip and the reader thread of the device ----
    api_pc,             \* API thread: "idle", "paritymode", "zeros", "await",
                        \* "hr_reset", "hr_wait"
    api_op,             \* the API call in progress (or the last one)
    api_i,              \* softReset: loop counter i; paritymode: statement
    api_ops,            \* number of API calls made so far
    api_request,            \* the finalized request Packet of the call
    zero_bytes,         \* softReset: zero bytes handed to dev->send
    chip_in,            \* the request written to the chip, <<>> if none
    chip_out,           \* the packet the reader thread has framed, <<>> if none
    api_future,             \* the future of submit: "none", "pending", "ready"
    api_response,           \* the Packet the future holds
    parsed_with,        \* <<b>>: recv parsed the response with has_parity b
    api_result,         \* "none", "ok", or "error" when the call threw
    dev_callback,           \* FifoDevice callback: "scheduler", "hardReset"
    hr_prev,            \* hardReset: prev
    hr_promise,         \* hardReset: retval, "unset" or "set"
    hr_seen,            \* packets the callback of hardReset was called with
    hr_packets,         \* number of packets delivered during hardReset
    api_reader,         \* reader thread: "running" or "terminated"
    \* ---- a Packet under construction ----
    pk,                 \* the Packet object: [buffer, has_parity]
    pk_phase,           \* "none", "building", "finalized"
    pk_fields,          \* the bytes appended so far
    pk_with,            \* the argument of the last finalize call
    pk_prev,            \* <<b>>: the argument of the finalize call before
                        \* the last one, <<>> if there was none
    pk_type,            \* the type the Packet was constructed with
    pk_args,            \* <<has_parity, check_parity>> of the parsing
                        \* constructor, <<>> before it is called
    pk_parsed,          \* the Packet the parsing constructor made of the
                        \* finalized bytes, NoPacket when it threw
    pk_channel,         \* what channel() returned on the parsed Packet
    \* ---- a byte string handed to the parsing constructor ----
    rx_bytes,           \* the bytes read so far
    rx_args,            \* <<has_parity, check_parity>>, <<>> before the call
    rx_result,          \* "none", "packet", or "error" when it threw
    \* ---- DeviceManager ----
    devices,            \* unordered_map<string, ...>: id -> vector<bool>,
                        \* the busy bits of the channels, index 0 .. n-1
    dm_order,           \* the order in which the map is iterated
    dm_last,            \* the last call: [op, id, channel, ok, flip]
    dm_held,            \* slots returned by acquireChannel and not released
                        \* since
    dm_released,        \* slots that were released at some time
    \* ---- the bind handlers of the RPC server ----
    bind_reqs,          \* by callback id: what the lambda of the request
                        \* captured, [stream, tag], and the payload length
    \* ---- UartDevice: the reader thread, the serial port, stop() ----
    ser_reader,         \* packetReceiver: "none", "running", "returned"
                        \* (the loop ended), "fatal" (an exception left it)
    ser_stage,          \* readPacket: "start", "header", "payload"
    ser_pc,             \* safeCancellableRead: "select" or "read"
    ser_n,              \* safeCancellableRead: n
    ser_len,            \* safeCancellableRead: len
    ser_fds,            \* safeCancellableRead: the descriptors in fds
    ser_avail,          \* bytes waiting in the input buffer of the port
    ser_arrived,        \* bytes that have arrived on the port so far
    ser_link,           \* the port: "up", "eof", "error"
    ser_pipe,           \* a byte is waiting in the cancellation pipe
    ser_stop,           \* the thread in stop(): "idle", "joining", "done"
    ser_packets,        \* packets handed to recv so far
    ser_partial,        \* the reader has received some and not all of the
                        \* bytes of a packet
    \* ---- Rate(const char*) ----
    rate_words,         \* the argument: its comma-separated words
    rate_result,        \* the Rate constructed: [type, index, rcw]; the type
                        \* is "none" before the call, "error" when it threw
    \* ---- API::softReset next to a running MultiQueueScheduler ----
    snd_api,            \* the thread in softReset: "idle", "loop" (between
                        \* two calls of dev->send), "send" (inside dev->send),
                        \* "await" (in get()), "done"
    snd_i,              \* softReset: loop counter i
    snd_runner,         \* the scheduling thread: "wait" (in process.pop, or
                        \* handling an event), "send" (inside device.send)
    snd_writers,        \* the threads that have written bytes to the device
    \* ---- bind handlers running on the threads of the RPC server ----
    pool_pc,            \* by thread: "idle", "load" (acquireChannel found a
                        \* free bit), "store" (it loaded the word of the bit),
                        \* "holding" (between acquireChannel and
                        \* releaseChannel), "rstore" (releaseChannel loaded
                        \* the word)
    pool_slot,          \* by thread: <<id, i>>, the slot it found or holds
    pool_word,          \* by thread: the bits it loaded
    \* ---- bind sessions from acquireChannel to return ----
    sess_state,         \* by stream: "none", "open", "returned"
    sess_channel        \* by stream: <<id, i>>, the slot acquireChannel gave

mqVars == <<process, device_queue, channel_queue, submitted, submitted_by_type,
            submitted_by_queue, next, quit, queued, terminated, runner,
            stopper, recvCallback, chip>>
histVars == <<nsubmit, nsent, delivered, handled, empties, sent, invocations,
              stopPending>>
fifoVars == <<fifo_tag, fifo_submitted, fifo_quit, fifo_terminated,
              fifo_stopper, fifo_recv, wire, fifo_sends, fifo_accepted,
              fifo_calls, strays, fifo_reader, fifo_warned, fifo_malformed,
              fifo_abandoned>>
devVars == <<uses_parity>>
cfgVars == <<channels>>
sndVars == <<snd_api, snd_i, snd_runner, snd_writers>>
poolVars == <<pool_pc, pool_slot, pool_word>>
sessVars == <<sess_state, sess_channel>>
pkVars == <<pk, pk_phase, pk_fields, pk_with, pk_prev, pk_type, pk_args,
            pk_parsed, pk_channel>>
rxVars == <<rx_bytes, rx_args, rx_result>>
dmVars == <<devices, dm_order, dm_last, dm_held, dm_released>>
bindVars == <<bind_reqs>>
serVars == <<ser_reader, ser_stage, ser_pc, ser_n, ser_len, ser_fds, ser_avail,
             ser_arrived, ser_link, ser_pipe, ser_stop, ser_packets,
             ser_partial>>
rateVars == <<rate_words, rate_result>>
apiVars == <<api_pc, api_op, api_i, api_ops, api_request, zero_bytes, chip_in,
             chip_out, api_future, api_response, parsed_with, api_result,
             dev_callback, hr_prev, hr_promise, hr_seen, hr_packets, api_reader>>
vars == <<mqVars, histVars, fifoVars, devVars, pkVars, apiVars, rxVars,
          dmVars, bindVars, serVars, rateVars, cfgVars,
    sndVars, poolVars, sessVars>>
\* What the actions of each component leave alone.
mqAll == <<mqVars, histVars>>
others == <<rxVars, dmVars, bindVars, serVars, rateVars, cfgVars,
    sndVars, poolVars, sessVars>>
notMQ == <<fifoVars, devVars, pkVars, apiVars, others>>
notFifo == <<mqAll, devVars, pkVars, apiVars, others>>
notPacket == <<mqAll, fifoVars, devVars, apiVars, others>>
notApi == <<mqAll, fifoVars, pkVars, others>>
notRx == <<mqAll, fifoVars, devVars, pkVars, apiVars, dmVars, bindVars,
           serVars, rateVars, cfgVars,
    sndVars, poolVars, sessVars>>
notDm == <<mqAll, fifoVars, devVars, pkVars, apiVars, rxVars, bindVars,
           serVars, rateVars, cfgVars,
    sndVars, poolVars, sessVars>>
notBind == <<fifoVars, devVars, pkVars, apiVars, rxVars, dmVars, serVars,
             rateVars, cfgVars,
    sndVars, poolVars, sessVars>>
notSer == <<mqAll, fifoVars, devVars, pkVars, apiVars, rxVars, dmVars,
            bindVars, rateVars, cfgVars,
    sndVars, poolVars, sessVars>>
notSnd == <<fifoVars, devVars, pkVars, apiVars, rxVars, dmVars, bindVars,
            serVars, rateVars, cfgVars, poolVars, sessVars>>
notPool == <<mqAll, fifoVars, devVars, pkVars, apiVars, rxVars, bindVars,
             serVars, rateVars, cfgVars, sndVars, sessVars>>
notSess == <<fifoVars, devVars, pkVars, apiVars, rxVars, bindVars, serVars,
             rateVars, cfgVars, sndVars, poolVars>>
notRate == <<mqAll, fifoVars, devVars, pkVars, apiVars, rxVars, dmVars,
             bindVars, serVars, cfgVars,
    sndVars, poolVars, sessVars>>

(***************************************************************************)
(* Packets as the scheduler sees them: type(), channel(), payloadLength(). *)
(* channel is -1 when the first field is no CHANNELx field.  `seq' tells   *)
(* packets apart: the callback id of a request, the delivery number of a   *)
(* packet from the device.                                                 *)
(***************************************************************************)
NoChannel == -1

\* The streams of the bind calls in progress.
Streams == {1, 2}
\* The threads of the RPC server that run bind handlers.
PoolThreads == 1 .. MaxPoolThreads

\* optional<ResponseCallback>: <<>> is nullopt, <<c>> holds callback c.
nullopt == <<>>
\* The callback Scheduler::submit builds for stop(): it resolves the promise.
StopCallback == <<0>>

Queues == channels * queues_per_channel

\* The packets the API hands to submitAsync: device-global CONTROL packets
\* and CONTROL / SPEECH / CHANNEL packets that start with a channel field.
RequestShapes ==
    {[type |-> CONTROL, channel |-> NoChannel]}
    \cup {[type |-> t, channel |-> c] : t \in {CONTROL, CHANNEL, SPEECH},
                                        c \in 0 .. channels - 1}

\* typeIndex with CONTROL packets in the lane of the CHANNEL packets.
typeIndexControlOne(request) ==
    CASE request.type = CHANNEL -> 1
      [] request.type = SPEECH  -> 0
      [] request.type = CONTROL -> 1

typeIndex(request) ==
    CASE request.type = CHANNEL -> 1
      [] request.type = SPEECH  -> 0
      [] request.type = CONTROL -> 0

queueIndex(request) ==
    IF request.channel = NoChannel THEN -1
    ELSE queues_per_channel * request.channel + typeIndex(request)

\* canSend without the bound on the total number of requests in flight.
canSendNoTotal(request, sub, byType, byQueue) ==
    IF byType[typeIndex(request)] >= channels + 2 THEN FALSE
    ELSE IF queueIndex(request) > 0 /\ byQueue[queueIndex(request)] >= 2 THEN FALSE
    ELSE TRUE

\* canSend without the bound on the requests in flight of one type.
canSendNoType(request, sub, byType, byQueue) ==
    IF Len(sub) >= Queues + 4 THEN FALSE
    ELSE IF queueIndex(request) > 0 /\ byQueue[queueIndex(request)] >= 2 THEN FALSE
    ELSE TRUE

canSend(request, sub, byType, byQueue) ==
    IF Len(sub) >= Queues + 4 THEN FALSE
    ELSE IF byType[typeIndex(request)] >= channels + 2 THEN FALSE
    ELSE IF queueIndex(request) > 0 /\ byQueue[queueIndex(request)] >= 2 THEN FALSE
    ELSE TRUE


(***************************************************************************)
(* The wire format (packet.h, packet.cc).  A packet is a sequence of bytes: *)
(* start byte, length (two bytes, network order), type, the fields, and    *)
(* optionally a trailing parity field.  buffer[1] is the start byte.       *)
(***************************************************************************)
Byte == 0 .. 255

\* uint8_t v ^ c
RECURSIVE Xor(_, _)
Xor(a, b) ==
    IF a = 0 /\ b = 0 THEN 0
    ELSE (((a % 2) + (b % 2)) % 2) + 2 * Xor(a \div 2, b \div 2)

\* ParityField::parity
RECURSIVE parity(_)
parity(data) == IF data = <<>> THEN 0 ELSE Xor(Head(data), parity(Tail(data)))

\* Header::getLength: ntohs(length)
getLength(packet) == packet[2] * 256 + packet[3]

\* Header::setLength: length = htons(val), val a uint16_t
setLength(buffer, val) ==
    [buffer EXCEPT ![2] = (val % 65536) \div 256, ![3] = val % 256]

\* Header::check: TRUE when it returns without throwing
HeaderCheck(packet) ==
    IF Len(packet) < sizeofHeader THEN FALSE
    ELSE IF packet[1] # START_BYTE THEN FALSE
    ELSE IF getLength(packet) # Len(packet) - sizeofHeader THEN FALSE
    ELSE packet[4] \in {CONTROL, CHANNEL, SPEECH}

\* The parity computed over the whole buffer, start byte included.
ParityDataAll(buffer) == SubSeq(buffer, 1, Len(buffer) - 1)

\* string_view(buffer).substr(1, buffer.length() - 2)
ParityData(buffer) == SubSeq(buffer, 2, Len(buffer) - 1)

\* The parsing constructor without the test of the tag of the parity field.
PacketValidNoTag(packet, has_parity, check_parity) ==
    IF has_parity /\ Len(packet) < sizeofHeader + sizeofParityField THEN FALSE
    ELSE IF has_parity /\ check_parity
            /\ parity(ParityData(packet)) # packet[Len(packet)] THEN FALSE
    ELSE HeaderCheck(packet)

\* Packet::Packet(const string&, bool, bool): TRUE when the constructor
\* returns without throwing.
PacketValid(packet, has_parity, check_parity) ==
    IF has_parity /\ Len(packet) < sizeofHeader + sizeofParityField THEN FALSE
    ELSE IF has_parity /\ packet[Len(packet) - 1] # PARITY THEN FALSE
    ELSE IF has_parity /\ check_parity
            /\ parity(ParityData(packet)) # packet[Len(packet)] THEN FALSE
    ELSE HeaderCheck(packet)

\* Packet::Packet(PacketType)
PacketNew(type) ==
    [buffer |-> <<START_BYTE, 0, 0, type>>, has_parity |-> FALSE]

\* Packet::append<FieldClass>(args): the bytes of the field are added
PacketAppend(packet, field) == [packet EXCEPT !.buffer = @ \o field]

\* Packet::payloadLength (uint16_t)
payloadLength(packet) ==
    (Len(packet.buffer) - sizeofHeader
     - (IF packet.has_parity THEN sizeofParityField ELSE 0)) % 65536

\* Packet::updateHeaderLength
updateHeaderLength(packet) ==
    [packet EXCEPT !.buffer = setLength(@, Len(@) - sizeofHeader)]

\* finalize with the header length written before the parity field is
\* appended or removed.
finalizeStaleLength(packet, with_parity) ==
    LET updated == updateHeaderLength(packet)
        shaped ==
            IF packet.has_parity /\ ~with_parity
            THEN [buffer |-> SubSeq(updated.buffer, 1,
                                    Len(updated.buffer) - sizeofParityField),
                  has_parity |-> FALSE]
            ELSE IF ~packet.has_parity /\ with_parity
            THEN [buffer |-> updated.buffer \o <<PARITY, 0>>,
                  has_parity |-> TRUE]
            ELSE updated
    IN IF shaped.has_parity
       THEN [shaped EXCEPT
                !.buffer[Len(shaped.buffer)] = parity(ParityData(shaped.buffer))]
       ELSE shaped

\* finalize that appends a parity field whenever with_parity is set, also
\* to a packet that has one.
finalizeAppendsAgain(packet, with_parity) ==
    LET shaped ==
            IF packet.has_parity /\ ~with_parity
            THEN [buffer |-> SubSeq(packet.buffer, 1,
                                    Len(packet.buffer) - sizeofParityField),
                  has_parity |-> FALSE]
            ELSE IF with_parity
            THEN [buffer |-> packet.buffer \o <<PARITY, 0>>,
                  has_parity |-> TRUE]
            ELSE packet
        updated == updateHeaderLength(shaped)
    IN IF updated.has_parity
       THEN [updated EXCEPT
                !.buffer[Len(updated.buffer)] = parity(ParityData(updated.buffer))]
       ELSE updated

\* Packet::finalize
finalize(packet, with_parity) ==
    LET shaped ==
            IF packet.has_parity /\ ~with_parity
            THEN [buffer |-> SubSeq(packet.buffer, 1,
                                    Len(packet.buffer) - sizeofParityField),
                  has_parity |-> FALSE]
            ELSE IF ~packet.has_parity /\ with_parity
            THEN [buffer |-> packet.buffer \o <<PARITY, 0>>,
                  has_parity |-> TRUE]
            ELSE packet
        updated == updateHeaderLength(shaped)
    IN IF updated.has_parity
       THEN [updated EXCEPT
                !.buffer[Len(updated.buffer)] = parity(ParityData(updated.buffer))]
       ELSE updated

\* Packet::payload<FieldClass>(offset): the size test; offset never exceeds
\* payloadLength at the call sites below.
PayloadFits(packet, offset, size) == ~(payloadLength(packet) - offset < size)

\* The byte at `offset' of the payload.
payloadByte(packet, offset) == packet.buffer[sizeofHeader + offset + 1]

\* Packet::Packet(const string&, bool, bool): the Packet it constructs.
PacketParse(packet, has_parity) == [buffer |-> packet, has_parity |-> has_parity]

\* (unsigned int) -1, written as the int that queueIndex converts it to
\* (int channel = request.channel()): the 32 bits are the same.
NoChannelField == -1

\* Packet::channel with CHANNEL2 missing from the switch.
Packet_channelTwo(packet) ==
    IF ~PayloadFits(packet, 0, sizeofField) THEN <<>>
    ELSE IF payloadByte(packet, 0) \in {CHANNEL0, CHANNEL1}
         THEN <<payloadByte(packet, 0) - CHANNEL0>>
         ELSE <<NoChannelField>>

\* Packet::channel: <<n>> when it returns n, <<>> when payload<Field>()
\* throws
Packet_channel(packet) ==
    IF ~PayloadFits(packet, 0, sizeofField) THEN <<>>
    ELSE IF payloadByte(packet, 0) \in {CHANNEL0, CHANNEL1, CHANNEL2}
         THEN <<payloadByte(packet, 0) - CHANNEL0>>
         ELSE <<NoChannelField>>

(***************************************************************************)
(* State after construction: MultiQueueScheduler(device, channels).        *)
(***************************************************************************)
MultiQueueScheduler(n) ==
    /\ channels = n
    /\ process = <<>>
    /\ device_queue = <<>>
    /\ channel_queue = [i \in 0 .. Queues - 1 |-> <<>>]
    /\ submitted = <<>>
    /\ submitted_by_type = [t \in 0 .. 2 |-> 0]
    /\ submitted_by_queue = [i \in 0 .. Queues - 1 |-> 0]
    /\ next = 0
    /\ quit = FALSE
    /\ queued = 0
    /\ terminated = nullopt
    /\ runner = "none"
    /\ stopper = "idle"
    /\ recvCallback = FALSE
    /\ chip = 0

\* The scheduler of a Usb3000 dongle.
InitMQ == MultiQueueScheduler(Usb3000Channels)

InitHist ==
    /\ nsubmit = 0
    /\ nsent = 0
    /\ delivered = 0
    /\ handled = 0
    /\ empties = 0
    /\ sent = {}
    /\ invocations = [c \in 0 .. MaxRequests |-> 0]
    /\ stopPending = 0

\* State after construction: FifoScheduler(device).  tag and quit are set
\* by start().
InitFifo ==
    /\ fifo_tag = 0
    /\ fifo_submitted = <<>>
    /\ fifo_quit = FALSE
    /\ fifo_terminated = "unset"
    /\ fifo_stopper = "none"
    /\ fifo_recv = FALSE
    /\ wire = {}
    /\ fifo_sends = <<>>
    /\ fifo_accepted = {}
    /\ fifo_calls = <<>>
    /\ strays = 0
    /\ fifo_reader = "running"
    /\ fifo_warned = {}
    /\ fifo_malformed = {}
    /\ fifo_abandoned = {}

\* Device: bool uses_parity = true
InitDevice == uses_parity = TRUE

NoPacket == [buffer |-> <<>>, has_parity |-> FALSE]

\* No Packet has been constructed yet.
InitPacket ==
    /\ pk = NoPacket
    /\ pk_phase = "none"
    /\ pk_fields = <<>>
    /\ pk_with = FALSE
    /\ pk_prev = <<>>
    /\ pk_type = CONTROL
    /\ pk_args = <<>>
    /\ pk_parsed = NoPacket
    /\ pk_channel = <<>>

\* No byte has been read yet.
InitRx ==
    /\ rx_bytes = <<>>
    /\ rx_args = <<>>
    /\ rx_result = "none"

\* DeviceManager(): no device, no call made yet.
NoDmCall == [op |-> "none", id |-> "", channel |-> 0, ok |-> TRUE, flip |-> 0]

InitDm ==
    /\ devices = <<>>
    /\ dm_order = <<>>
    /\ dm_last = NoDmCall
    /\ dm_held = {}
    /\ dm_released = {}

\* AmbeServiceImpl: no request has been read yet.
InitBind == bind_reqs = <<>>

\* UartDevice(pathname, baudrate): no thread, the port not yet opened.
InitSerial ==
    /\ ser_reader = "none"
    /\ ser_stage = "start"
    /\ ser_pc = "select"
    /\ ser_n = 0
    /\ ser_len = 0
    /\ ser_fds = {}
    /\ ser_avail = 0
    /\ ser_arrived = 0
    /\ ser_link = "up"
    /\ ser_pipe = FALSE
    /\ ser_stop = "idle"
    /\ ser_packets = 0
    /\ ser_partial = FALSE

\* No Rate has been constructed yet.
NoRate == [type |-> "none", index |-> 0, rcw |-> <<>>]

InitRate ==
    /\ rate_words = <<>>
    /\ rate_result = NoRate

\* API(device, scheduler) on a started scheduler: the callback of the
\* device is the scheduler's recv, no call has been made.
NoCall == [name |-> "none", channel |-> 0, mode |-> 0]

InitApi ==
    /\ api_pc = "idle"
    /\ api_op = NoCall
    /\ api_i = 0
    /\ api_ops = 0
    /\ api_request = NoPacket
    /\ zero_bytes = 0
    /\ chip_in = <<>>
    /\ chip_out = <<>>
    /\ api_future = "none"
    /\ api_response = NoPacket
    /\ parsed_with = <<>>
    /\ api_result = "none"
    /\ dev_callback = "scheduler"
    /\ hr_prev = "scheduler"
    /\ hr_promise = "unset"
    /\ hr_seen = {}
    /\ hr_packets = 0
    /\ api_reader = "running"

\* No softReset has been called; the scheduling thread is not in send.
InitSend ==
    /\ snd_api = "idle"
    /\ snd_i = 0
    /\ snd_runner = "wait"
    /\ snd_writers = {}

\* No bind handler is running.
InitPool ==
    /\ pool_pc = [t \in PoolThreads |-> "idle"]
    /\ pool_slot = [t \in PoolThreads |-> <<>>]
    /\ pool_word = [t \in PoolThreads |-> <<>>]

InitSession ==
    /\ sess_state = [s \in Streams |-> "none"]
    /\ sess_channel = [s \in Streams |-> <<>>]

InitRest ==
    /\ InitHist /\ InitFifo /\ InitDevice /\ InitPacket /\ InitApi
    /\ InitRx /\ InitDm /\ InitBind /\ InitSerial /\ InitRate
    /\ InitSend /\ InitPool /\ InitSession

Init == InitMQ /\ InitRest

(***************************************************************************)
(* MultiQueueScheduler::start                                              *)
(***************************************************************************)
Start ==
    /\ runner = "none"
    /\ recvCallback' = TRUE
    /\ runner' = "running"
    /\ UNCHANGED <<process, device_queue, channel_queue, submitted,
                   submitted_by_type, submitted_by_queue, next, quit, queued,
                   terminated, stopper, chip>>
    /\ UNCHANGED histVars
    /\ UNCHANGED notMQ

(***************************************************************************)
(* MultiQueueScheduler::submitAsync, called by any thread with a request   *)
(* built by the API (a non-empty payload).                                 *)
(***************************************************************************)
\* Requests of one shape that are in `process', in a queue or in
\* `submitted': submitted by the client and not yet answered.
Count(seq, shape) ==
    Cardinality({n \in 1 .. Len(seq) :
                    /\ seq[n].callback # nullopt
                    /\ seq[n].packet.payloadLength # 0
                    /\ seq[n].packet.type = shape.type
                    /\ seq[n].packet.channel = shape.channel})

Outstanding(shape) ==
    Count(process, shape) + Count(submitted, shape)
    + (IF queueIndex(shape) = -1 THEN Count(device_queue, shape)
       ELSE Count(channel_queue[queueIndex(shape)], shape))

SubmitAsync(shape) ==
    /\ nsubmit < MaxRequests
    /\ Outstanding(shape) < (IF shape.type = CONTROL THEN MaxControl
                              ELSE MaxPipeline)
    /\ Len(process) < MaxProcess
    /\ stopper = "idle"
    /\ LET id == nsubmit + 1
           packet == [type |-> shape.type, channel |-> shape.channel,
                      payloadLength |-> 1, seq |-> id]
       IN /\ process' = Append(process, [packet |-> packet, callback |-> <<id>>])
          /\ nsubmit' = id
    /\ UNCHANGED <<device_queue, channel_queue, submitted, submitted_by_type,
                   submitted_by_queue, next, quit, queued, terminated, runner,
                   stopper, recvCallback, chip>>
    /\ UNCHANGED <<nsent, delivered, handled, empties, sent, invocations,
                   stopPending>>
    /\ UNCHANGED notMQ

(***************************************************************************)
(* MultiQueueScheduler::stop, first half: Scheduler::submit(Packet()),     *)
(* then the caller blocks in future.get().                                 *)
(***************************************************************************)
Stop ==
    /\ runner # "none"
    /\ stopper = "idle"
    /\ Len(process) < MaxProcess
    /\ process' = Append(process,
                    [packet |-> [type |-> CONTROL, channel |-> NoChannel,
                                 payloadLength |-> 0, seq |-> 0],
                     callback |-> StopCallback])
    /\ stopper' = "waiting"
    /\ stopPending' = Cardinality({c \in 1 .. nsubmit : invocations[c] = 0})
    /\ UNCHANGED <<device_queue, channel_queue, submitted, submitted_by_type,
                   submitted_by_queue, next, quit, queued, terminated, runner,
                   recvCallback, chip>>
    /\ UNCHANGED <<nsubmit, nsent, delivered, handled, empties, sent,
                   invocations>>
    /\ UNCHANGED notMQ

\* Has the callback of stop() been invoked (the future of stop is ready).
StopResolved == invocations[StopCallback[1]] > 0

(***************************************************************************)
(* MultiQueueScheduler::stop, second half: future.get() returns,           *)
(* runner.join() returns, device.setCallback(nullptr).                     *)
(***************************************************************************)
StopReturn ==
    /\ stopper = "waiting"
    /\ StopResolved
    /\ runner = "exited"
    /\ stopper' = "joined"
    /\ recvCallback' = FALSE
    /\ UNCHANGED <<process, device_queue, channel_queue, submitted,
                   submitted_by_type, submitted_by_queue, next, quit, queued,
                   terminated, runner, chip>>
    /\ UNCHANGED histVars
    /\ UNCHANGED notMQ

(***************************************************************************)
(* The chip answers the oldest packet written to it; the reader thread of  *)
(* the device frames the answer and calls the installed callback,          *)
(* MultiQueueScheduler::recv, which pushes (Packet, nullopt) onto          *)
(* `process'.  len is the payload length of the delivered packet: 0 for a  *)
(* packet that holds a header only, 1 for any packet with fields.          *)
(***************************************************************************)
recv(len, k) ==
    Append(process, [packet |-> [type |-> CONTROL, channel |-> NoChannel,
                                 payloadLength |-> len, seq |-> k],
                     callback |-> nullopt])

DeviceDeliver(len) ==
    /\ chip > 0
    /\ Len(process) < MaxProcess
    /\ len = 0 => empties < MaxEmpty
    /\ chip' = chip - 1
    /\ delivered' = delivered + 1
    /\ empties' = IF len = 0 THEN empties + 1 ELSE empties
    /\ process' = IF recvCallback THEN recv(len, delivered + 1) ELSE process
    /\ UNCHANGED <<device_queue, channel_queue, submitted, submitted_by_type,
                   submitted_by_queue, next, quit, queued, terminated, runner,
                   stopper, recvCallback>>
    /\ UNCHANGED <<nsubmit, nsent, handled, sent, invocations, stopPending>>
    /\ UNCHANGED notMQ


(***************************************************************************)
(* MultiQueueScheduler::run.  The scheduling thread is the only owner of   *)
(* the queues and counters, so one pass of its while loop is one step:     *)
(* pop an event, handle it, run the two send loops, test the loop          *)
(* condition.  The state of a pass is kept in a record st with fields      *)
(*   dq, cq, sub, bt, bq  device_queue, channel_queue, submitted,          *)
(*                        submitted_by_type, submitted_by_queue            *)
(*   queued, next, quit, terminated   the locals of run()                  *)
(*   out       the requests given to device.send in this pass, in order    *)
(*   calls     the callbacks invoked in this pass, in order                *)
(*   at        for each request the round-robin loop gave to device.send,  *)
(*             the queues and counters at the moment of that call          *)
(***************************************************************************)
RunState ==
    [dq |-> device_queue, cq |-> channel_queue, sub |-> submitted,
     bt |-> submitted_by_type, bq |-> submitted_by_queue,
     queued |-> queued, next |-> next, quit |-> quit,
     terminated |-> terminated, out |-> <<>>, calls |-> <<>>, at |-> <<>>]

\* if (!packet.payloadLength()): the termination branch
HandleEmpty(st, tuple) ==
    [st EXCEPT !.quit = TRUE,
               !.terminated = IF tuple.callback # nullopt THEN tuple.callback
                              ELSE @]

\* HandleRequest filing the request at the front of its queue.
HandleRequestFront(st, tuple) ==
    LET i == queueIndex(tuple.packet)
    IN IF i = -1
       THEN [st EXCEPT !.dq = <<tuple>> \o @, !.queued = @ + 1]
       ELSE [st EXCEPT !.cq[i] = <<tuple>> \o @, !.queued = @ + 1]

\* else if (callback): file the request in its queue
HandleRequest(st, tuple) ==
    LET i == queueIndex(tuple.packet)
    IN IF i = -1
       THEN [st EXCEPT !.dq = Append(@, tuple), !.queued = @ + 1]
       ELSE [st EXCEPT !.cq[i] = Append(@, tuple), !.queued = @ + 1]

\* The response branch decrementing the counters for every request.
HandleResponseCountsAll(st, tuple) ==
    IF st.sub = <<>> THEN st
    ELSE LET front == Head(st.sub)
             request == front.packet
             i == queueIndex(request)
             counted ==
                 [st EXCEPT !.bt[typeIndex(request)] = @ - 1,
                            !.bq[IF i # -1 THEN i ELSE 0] = @ - 1]
         IN [counted EXCEPT
                !.calls = IF front.callback # nullopt
                          THEN Append(@, [callback |-> front.callback[1],
                                          seq |-> tuple.packet.seq,
                                          ord |-> nsent - Len(st.sub) + 1,
                                          queue |-> i])
                          ELSE @,
                !.sub = Tail(@)]

\* else: a response from the chip resolves the front of `submitted'
HandleResponse(st, tuple) ==
    IF st.sub = <<>> THEN st
    ELSE LET front == Head(st.sub)
             request == front.packet
             i == queueIndex(request)
             counted ==
                 IF i # -1
                 THEN [st EXCEPT !.bt[typeIndex(request)] = @ - 1,
                                 !.bq[queueIndex(request)] = @ - 1]
                 ELSE st
         IN [counted EXCEPT
                !.calls = IF front.callback # nullopt
                          THEN Append(@, [callback |-> front.callback[1],
                                          seq |-> tuple.packet.seq,
                                          ord |-> nsent - Len(st.sub) + 1,
                                          queue |-> i])
                          ELSE @,
                !.sub = Tail(@)]

HandleEvent(st, tuple) ==
    IF tuple.packet.payloadLength = 0 THEN HandleEmpty(st, tuple)
    ELSE IF tuple.callback # nullopt THEN HandleRequest(st, tuple)
    ELSE HandleResponse(st, tuple)

RECURSIVE DeviceLoop(_)
\* The first send loop leaving the device queue alone.
DeviceLoopSkipped(st) == st

\* while (!device_queue.empty()) { if (!canSend) break; send; ... }
DeviceLoop(st) ==
    IF st.dq = <<>> THEN st
    ELSE IF ~canSend(Head(st.dq).packet, st.sub, st.bt, st.bq) THEN st
    ELSE DeviceLoop([st EXCEPT !.out = Append(@, Head(st.dq)),
                               !.sub = Append(@, Head(st.dq)),
                               !.dq = Tail(@),
                               !.queued = @ - 1])

RECURSIVE ChannelLoop(_, _)
\* The round-robin loop with `break' in place of the two `continue'.
RECURSIVE ChannelLoopBreaks(_, _)
ChannelLoopBreaks(st, j) ==
    IF ~(j < Queues /\ st.queued # 0) THEN st
    ELSE IF st.cq[st.next] = <<>> THEN st
    ELSE LET front == Head(st.cq[st.next])
             request == front.packet
         IN IF ~canSend(request, st.sub, st.bt, st.bq) THEN st
            ELSE ChannelLoopBreaks(
                   [st EXCEPT
                      !.next = (@ + 1) % Queues,
                      !.out = Append(@, front),
                      !.bt[typeIndex(request)] = @ + 1,
                      !.bq[queueIndex(request)] = @ + 1,
                      !.sub = Append(@, front),
                      !.cq[st.next] = Tail(@),
                      !.queued = @ - 1],
                   1)

\* for (j = 0; (j < queues) && queued; j++, next = (next + 1) % queues)
\* A send sets j = 0 in the body; the increment then makes it 1.
ChannelLoop(st, j) ==
    IF ~(j < Queues /\ st.queued # 0) THEN st
    ELSE LET advance == [st EXCEPT !.next = (@ + 1) % Queues]
         IN IF st.cq[st.next] = <<>> THEN ChannelLoop(advance, j + 1)
            ELSE LET front == Head(st.cq[st.next])
                     request == front.packet
                 IN IF ~canSend(request, st.sub, st.bt, st.bq)
                    THEN ChannelLoop(advance, j + 1)
                    ELSE ChannelLoop(
                           [advance EXCEPT
                              !.out = Append(@, front),
                              !.at = Append(@, [request |-> front,
                                                dq |-> st.dq, sub |-> st.sub,
                                                bt |-> st.bt, bq |-> st.bq]),
                              !.bt[typeIndex(request)] = @ + 1,
                              !.bq[queueIndex(request)] = @ + 1,
                              !.sub = Append(@, front),
                              !.cq[st.next] = Tail(@),
                              !.queued = @ - 1],
                           1)

\* One pass of the loop body.
Pass(st, tuple) == ChannelLoop(DeviceLoop(HandleEvent(st, tuple)), 0)

\* The loop condition without the test of `submitted'.
LoopConditionNoSubmitted(st) == ~st.quit \/ st.queued # 0

\* while (!quit || queued || submitted.size())
LoopCondition(st) == ~st.quit \/ st.queued # 0 \/ Len(st.sub) # 0

\* if (terminated) terminated.value()(Packet()), after the loop
ExitCalls(st) ==
    IF st.terminated # nullopt
    THEN <<[callback |-> st.terminated[1], seq |-> 0, ord |-> 0,
            queue |-> -2]>>
    ELSE <<>>

IsResponse(tuple) == tuple.callback = nullopt

\* The pass run() makes on the event at the head of `process', and the
\* callbacks it invokes, those after the loop included.
NextPass == Pass(RunState, Head(process))
PassCalls(st) == st.calls \o (IF LoopCondition(st) THEN <<>> ELSE ExitCalls(st))

Run ==
    /\ runner = "running"
    /\ process # <<>>
    /\ LET tuple == Head(process)
           st == NextPass
           calls == PassCalls(st)
       IN /\ process' = Tail(process)
          /\ device_queue' = st.dq
          /\ channel_queue' = st.cq
          /\ submitted' = st.sub
          /\ submitted_by_type' = st.bt
          /\ submitted_by_queue' = st.bq
          /\ queued' = st.queued
          /\ next' = st.next
          /\ quit' = st.quit
          /\ terminated' = st.terminated
          /\ runner' = IF LoopCondition(st) THEN "running" ELSE "exited"
          /\ chip' = chip + Len(st.out)
          /\ nsent' = nsent + Len(st.out)
          /\ sent' = sent \cup {st.out[n].callback[1] : n \in 1 .. Len(st.out)}
          /\ handled' = IF IsResponse(tuple) THEN handled + 1 ELSE handled
          /\ invocations' =
                 [c \in DOMAIN invocations |->
                     invocations[c]
                     + Cardinality({n \in 1 .. Len(calls) : calls[n].callback = c})]
    /\ UNCHANGED <<stopper, recvCallback>>
    /\ UNCHANGED <<nsubmit, delivered, empties, stopPending>>
    /\ UNCHANGED notMQ

Next ==
    \/ Start
    \/ \E shape \in RequestShapes : SubmitAsync(shape)
    \/ Stop
    \/ StopReturn
    \/ \E len \in {0, 1} : DeviceDeliver(len)
    \/ Run

Spec == Init /\ [][Next]_vars

(***************************************************************************)
(* The MultiQueueScheduler with clients that never stop submitting.  The   *)
(* counters that observe a run stay as they are, so that the scheduler     *)
(* comes back to the states it was in; one request at a time carries the   *)
(* mark seq = 1 and is followed through the queues.                        *)
(***************************************************************************)
Everywhere == <<process, device_queue>> \o [q \in 1 .. Queues |-> channel_queue[q - 1]]
                 \o <<submitted>>

Marked(seq) == \E n \in 1 .. Len(seq) : seq[n].packet.seq = 1

\* The clients compress speech on the first MaxFairChannels channels.
FairShapes == {shape \in RequestShapes :
                  shape.type = SPEECH /\ shape.channel < MaxFairChannels}

\* submitAsync
SubmitFair(shape, mark) ==
    /\ Outstanding(shape) < MaxFairPipeline
    /\ Len(process) < MaxProcess
    /\ mark = 1 => /\ shape.channel # NoChannel
                    /\ \A n \in 1 .. Len(Everywhere) : ~Marked(Everywhere[n])
    /\ process' = Append(process,
                     [packet |-> [type |-> shape.type, channel |-> shape.channel,
                                  payloadLength |-> 1, seq |-> mark],
                      callback |-> <<1>>])
    /\ UNCHANGED <<device_queue, channel_queue, submitted, submitted_by_type,
                   submitted_by_queue, next, quit, queued, terminated, runner,
                   stopper, recvCallback, chip>>
    /\ UNCHANGED histVars
    /\ UNCHANGED notMQ

\* The chip answers the oldest packet written to it; recv pushes the answer.
\* The answers are packets with fields (payload length 1).
DeliverFair ==
    /\ chip > 0
    /\ Len(process) < MaxProcess
    /\ chip' = chip - 1
    /\ process' = IF recvCallback THEN recv(1, 0) ELSE process
    /\ UNCHANGED <<device_queue, channel_queue, submitted, submitted_by_type,
                   submitted_by_queue, next, quit, queued, terminated, runner,
                   stopper, recvCallback>>
    /\ UNCHANGED histVars
    /\ UNCHANGED notMQ

\* One pass of the loop of run().
RunFair ==
    /\ runner = "running"
    /\ process # <<>>
    /\ LET st == NextPass
       IN /\ process' = Tail(process)
          /\ device_queue' = st.dq
          /\ channel_queue' = st.cq
          /\ submitted' = st.sub
          /\ submitted_by_type' = st.bt
          /\ submitted_by_queue' = st.bq
          /\ queued' = st.queued
          /\ next' = st.next
          /\ quit' = st.quit
          /\ terminated' = st.terminated
          /\ runner' = IF LoopCondition(st) THEN "running" ELSE "exited"
          /\ chip' = chip + Len(st.out)
    /\ UNCHANGED <<stopper, recvCallback>>
    /\ UNCHANGED histVars
    /\ UNCHANGED notMQ

NextFair ==
    \/ Start
    \/ \E shape \in FairShapes, mark \in {0, 1} : SubmitFair(shape, mark)
    \/ DeliverFair
    \/ RunFair

\* The scheduler of a Usb3003 dongle, the other components as in Init.
InitFair == MultiQueueScheduler(Usb3003Channels) /\ InitRest

\* A step of the scheduling thread: it pops an event.  Only RunFair takes
\* such a step, and RunFair can take one whenever an event waits.
Scheduled == runner = "running" /\ process # <<>> /\ process' = Tail(process)

\* The scheduling thread runs whenever an event waits in `process', and the
\* chip answers every packet written to it.
SpecFair ==
    InitFair /\ [][NextFair]_vars /\ WF_process(Scheduled) /\ WF_vars(DeliverFair)

(***************************************************************************)
(* API::softReset called while the scheduling thread of a                  *)
(* MultiQueueScheduler runs and clients keep requests queued and in        *)
(* flight.  device.send is blocking: a thread stays inside it from         *)
(* RunSend to RunSendEnd (the scheduling thread) and from SoftResetZeroBegin to     *)
(* SoftResetZeroEnd (the thread in softReset).                                      *)
(***************************************************************************)
\* The callback Scheduler::submit gives to the RESET request of softReset.
ResetCallback == <<2>>

\* One pass of the loop of run(); the thread is inside device.send when the
\* pass writes packets.  The callback of the RESET request fulfils the
\* promise softReset waits for.
RunSend ==
    /\ snd_runner = "wait"
    /\ runner = "running"
    /\ process # <<>>
    /\ LET st == NextPass
           calls == PassCalls(st)
       IN /\ process' = Tail(process)
          /\ device_queue' = st.dq
          /\ channel_queue' = st.cq
          /\ submitted' = st.sub
          /\ submitted_by_type' = st.bt
          /\ submitted_by_queue' = st.bq
          /\ queued' = st.queued
          /\ next' = st.next
          /\ quit' = st.quit
          /\ terminated' = st.terminated
          /\ runner' = IF LoopCondition(st) THEN "running" ELSE "exited"
          /\ chip' = chip + Len(st.out)
          /\ snd_runner' = IF st.out # <<>> THEN "send" ELSE "wait"
          /\ snd_writers' = IF st.out # <<>> THEN snd_writers \cup {"runner"}
                            ELSE snd_writers
          /\ snd_api' = IF /\ snd_api = "await"
                           /\ \E n \in 1 .. Len(calls) :
                                  calls[n].callback = ResetCallback[1]
                        THEN "done" ELSE snd_api
    /\ UNCHANGED <<stopper, recvCallback, snd_i>>
    /\ UNCHANGED histVars
    /\ UNCHANGED notSnd

\* device.send returns in the scheduling thread.
RunSendEnd ==
    /\ snd_runner = "send"
    /\ snd_runner' = "wait"
    /\ UNCHANGED <<snd_api, snd_i, snd_writers>>
    /\ UNCHANGED <<mqAll, notSnd>>

\* A thread calls API::softReset.
SoftResetBegin ==
    /\ snd_api = "idle"
    /\ snd_api' = "loop"
    /\ snd_i' = 0
    /\ UNCHANGED <<snd_runner, snd_writers>>
    /\ UNCHANGED <<mqAll, notSnd>>

\* softReset calls dev->send(zero).
SoftResetZeroBegin ==
    /\ snd_api = "loop"
    /\ snd_i < MaxZeroSends
    /\ snd_i < ZeroSends
    /\ snd_api' = "send"
    /\ snd_writers' = snd_writers \cup {"api"}
    /\ UNCHANGED <<snd_i, snd_runner>>
    /\ UNCHANGED <<mqAll, notSnd>>

\* dev->send(zero) returns.
SoftResetZeroEnd ==
    /\ snd_api = "send"
    /\ snd_api' = "loop"
    /\ snd_i' = snd_i + 1
    /\ UNCHANGED <<snd_runner, snd_writers>>
    /\ UNCHANGED <<mqAll, notSnd>>

\* After the loop softReset submits the RESET request, a control request with
\* no channel field, and waits for its response.
SoftResetSubmit ==
    /\ snd_api = "loop"
    /\ snd_i = MaxZeroSends \/ snd_i = ZeroSends
    /\ Len(process) < MaxProcess
    /\ process' = Append(process,
                     [packet |-> [type |-> CONTROL, channel |-> NoChannel,
                                  payloadLength |-> 1, seq |-> 0],
                      callback |-> ResetCallback])
    /\ snd_api' = "await"
    /\ UNCHANGED <<device_queue, channel_queue, submitted, submitted_by_type,
                   submitted_by_queue, next, quit, queued, terminated, runner,
                   stopper, recvCallback, chip>>
    /\ UNCHANGED <<snd_i, snd_runner, snd_writers>>
    /\ UNCHANGED histVars
    /\ UNCHANGED notSnd

NextSend ==
    \/ Start
    \/ \E shape \in FairShapes : SubmitFair(shape, 0)
    \/ DeliverFair
    \/ RunSend
    \/ RunSendEnd
    \/ SoftResetBegin
    \/ SoftResetZeroBegin
    \/ SoftResetZeroEnd
    \/ SoftResetSubmit

SpecSend == InitFair /\ [][NextSend]_vars

(***************************************************************************)
(* FifoScheduler.  Every method holds the mutex for its whole body, so     *)
(* each is one step.                                                       *)
(***************************************************************************)
\* FifoScheduler::start
FifoStart ==
    /\ fifo_stopper = "none"
    /\ fifo_quit' = FALSE
    /\ fifo_tag' = 0
    /\ fifo_terminated' = "unset"
    /\ fifo_recv' = TRUE
    /\ fifo_stopper' = "idle"
    /\ UNCHANGED <<fifo_submitted, wire, fifo_sends, fifo_accepted, fifo_calls,
                   strays, fifo_reader, fifo_warned, fifo_malformed,
                   fifo_abandoned>>
    /\ UNCHANGED notFifo

\* submitted[tag] = callback
FifoRecord(map, t, callback) ==
    [k \in DOMAIN map \cup {t} |-> IF k = t THEN callback ELSE map[k]]

\* FifoScheduler::submitAsync.  ok: device.send returns normally; otherwise
\* it throws and the catch block runs.  The callback of the n-th call is n.
FifoSubmitAsync(ok) ==
    /\ fifo_stopper \in {"idle", "waiting"}
    /\ fifo_terminated # "thrown"
    /\ fifo_reader = "running"
    /\ Len(fifo_sends) < MaxFifoRequests
    /\ LET callback == Len(fifo_sends) + 1
           t == fifo_tag + 1
       IN /\ fifo_tag' = t
          /\ fifo_sends' = Append(fifo_sends, t)
          /\ wire' = IF ok THEN wire \cup {t} ELSE wire
          /\ fifo_accepted' = IF ok THEN fifo_accepted \cup {t} ELSE fifo_accepted
          /\ fifo_calls' = IF ok THEN fifo_calls
                           ELSE Append(fifo_calls, [callback |-> callback, tag |-> 0])
          /\ fifo_submitted' = FifoRecord(fifo_submitted, t, callback)
    /\ UNCHANGED <<fifo_quit, fifo_terminated, fifo_stopper, fifo_recv, strays,
                   fifo_reader, fifo_warned, fifo_malformed, fifo_abandoned>>
    /\ UNCHANGED notFifo

\* The lookup taking the first entry of the map instead of the entry of t.
FifoFindAny(map, t) == map[CHOOSE k \in DOMAIN map : \A j \in DOMAIN map : k <= j]

\* submitted.find(tag)->second
FifoFind(map, t) == map[t]

\* The lookup falling back to the oldest entry when the tag is not found.
FifoLookupFallback(map, t) ==
    IF t \in DOMAIN map THEN t
    ELSE IF DOMAIN map # {}
         THEN CHOOSE k \in DOMAIN map : \A j \in DOMAIN map : k <= j
         ELSE 0

\* auto v = submitted.find(tag): the key found, 0 for submitted.end()
FifoLookup(map, t) == IF t \in DOMAIN map THEN t ELSE 0

\* The packets the device delivers: a CONTROL response with a parity field,
\* and the same response with a wrong start byte, a wrong type, a header
\* length that does not match, or no parity field.
Response == finalize(PacketAppend(PacketNew(CONTROL), <<RATET, 0>>), TRUE).buffer

ResponsePackets ==
    {Response,
     [Response EXCEPT ![1] = 0],
     [Response EXCEPT ![4] = 3],
     [Response EXCEPT ![3] = @ + 1],
     finalize(PacketAppend(PacketNew(CONTROL), <<RATET, 0>>), FALSE).buffer}

\* FifoScheduler::recv, called by the reader thread of the device with a
\* packet tagged t.  The Packet constructor runs before the callback is
\* called; when it throws, the exception leaves recv and ends the reader
\* thread (RpcDevice::packetReceiver does not catch it).
FifoRecv(t, packet) ==
    /\ fifo_recv
    /\ fifo_terminated # "thrown"
    /\ fifo_reader = "running"
    /\ \/ t \in wire /\ wire' = wire \ {t} /\ strays' = strays
       \/ t \notin wire /\ strays < MaxStray /\ wire' = wire /\ strays' = strays + 1
    /\ LET v == FifoLookup(fifo_submitted, t)
       IN IF v = 0
          THEN /\ fifo_warned' = fifo_warned \cup {t}
               /\ UNCHANGED <<fifo_submitted, fifo_calls, fifo_terminated,
                              fifo_reader, fifo_malformed>>
          ELSE IF ~PacketValid(packet, uses_parity, FALSE)
          THEN /\ fifo_reader' = "terminated"
               /\ fifo_malformed' = fifo_malformed \cup {t}
               /\ UNCHANGED <<fifo_submitted, fifo_calls, fifo_terminated,
                              fifo_warned>>
          ELSE /\ fifo_calls' = Append(fifo_calls,
                                   [callback |-> FifoFind(fifo_submitted, v), tag |-> t])
               /\ fifo_submitted' = [k \in DOMAIN fifo_submitted \ {v} |-> fifo_submitted[k]]
               /\ fifo_terminated' =
                     IF fifo_quit /\ DOMAIN fifo_submitted' = {}
                     THEN (IF fifo_terminated = "unset" THEN "set" ELSE "thrown")
                     ELSE fifo_terminated
               /\ UNCHANGED <<fifo_reader, fifo_warned, fifo_malformed>>
    /\ UNCHANGED <<fifo_tag, fifo_quit, fifo_stopper, fifo_recv, fifo_sends,
                   fifo_accepted, fifo_abandoned>>
    /\ UNCHANGED notFifo

\* The future given up with the entry of its request erased from the map.
FutureDroppedErases(map, c) == [k \in {j \in DOMAIN map : map[j] # c} |-> map[k]]

\* `return -1' destroys the future; the promise is owned by the callback in
\* the map, which nothing touches.
FutureDropped(map, c) == map

\* ambe_compress / ambe_decompress: future.wait_for(deadline) returns
\* timeout for the request with callback c, which has not been answered.
FifoDeadline(c) ==
    /\ c \in 1 .. Len(fifo_sends)
    /\ c \notin fifo_abandoned
    /\ Cardinality(fifo_abandoned) < MaxDeadlines
    /\ \A n \in 1 .. Len(fifo_calls) : fifo_calls[n].callback # c
    /\ fifo_abandoned' = fifo_abandoned \cup {c}
    /\ fifo_submitted' = FutureDropped(fifo_submitted, c)
    /\ UNCHANGED <<fifo_tag, fifo_quit, fifo_terminated, fifo_stopper, fifo_recv,
                   wire, fifo_sends, fifo_accepted, fifo_calls, strays,
                   fifo_reader, fifo_warned, fifo_malformed>>
    /\ UNCHANGED notFifo

\* FifoScheduler::stop up to future.get(), or to the end when nothing is
\* outstanding.
FifoStop ==
    /\ fifo_stopper = "idle"
    /\ IF DOMAIN fifo_submitted # {}
       THEN /\ fifo_quit' = TRUE
            /\ fifo_stopper' = "waiting"
            /\ UNCHANGED fifo_recv
       ELSE /\ fifo_recv' = FALSE
            /\ fifo_stopper' = "done"
            /\ UNCHANGED fifo_quit
    /\ UNCHANGED <<fifo_tag, fifo_submitted, fifo_terminated, wire, fifo_sends,
                   fifo_accepted, fifo_calls, strays, fifo_reader, fifo_warned,
                   fifo_malformed, fifo_abandoned>>
    /\ UNCHANGED notFifo

\* FifoScheduler::stop: future.get() returns, device.setCallback(nullptr).
FifoStopReturn ==
    /\ fifo_stopper = "waiting"
    /\ fifo_terminated = "set"
    /\ fifo_recv' = FALSE
    /\ fifo_stopper' = "done"
    /\ UNCHANGED <<fifo_tag, fifo_submitted, fifo_quit, fifo_terminated, wire,
                   fifo_sends, fifo_accepted, fifo_calls, strays, fifo_reader,
                   fifo_warned, fifo_malformed, fifo_abandoned>>
    /\ UNCHANGED notFifo

NextFifo ==
    \/ FifoStart
    \/ \E ok \in BOOLEAN : FifoSubmitAsync(ok)
    \/ \E t \in 1 .. MaxFifoRequests + 1, packet \in ResponsePackets :
          FifoRecv(t, packet)
    \/ \E c \in 1 .. MaxFifoRequests : FifoDeadline(c)
    \/ FifoStop
    \/ FifoStopReturn

SpecFifo == Init /\ [][NextFifo]_vars


(***************************************************************************)
(* Building a request the way the API does: Packet request(type), a few    *)
(* append<Field> calls, then finalize(with_parity).  finalize may be       *)
(* called again on the finalized packet.                                   *)
(***************************************************************************)
\* The fields appended in the model, as bytes: Field(PRODID),
\* ParityModeField(0), ChannelField(0), RatetField(47), ChannelField(1),
\* ChannelField(2), Field(GAIN).
Fields == {<<PRODID>>, <<PARITYMODE, 0>>, <<CHANNEL0>>, <<RATET, 47>>,
           <<CHANNEL1>>, <<CHANNEL2>>, <<GAIN>>}

Construct(type) ==
    /\ pk_phase = "none"
    /\ pk' = PacketNew(type)
    /\ pk_phase' = "building"
    /\ pk_type' = type
    /\ UNCHANGED <<pk_fields, pk_with, pk_prev, pk_args, pk_parsed, pk_channel>>
    /\ UNCHANGED notPacket

AppendField(field) ==
    /\ pk_phase = "building"
    /\ Len(pk_fields) + Len(field) <= MaxPayload
    /\ pk' = PacketAppend(pk, field)
    /\ pk_fields' = pk_fields \o field
    /\ UNCHANGED <<pk_phase, pk_with, pk_prev, pk_type, pk_args, pk_parsed,
                   pk_channel>>
    /\ UNCHANGED notPacket

Finalize(with_parity) ==
    /\ pk_phase \in {"building", "finalized"}
    /\ pk' = finalize(pk, with_parity)
    /\ pk_phase' = "finalized"
    /\ pk_with' = with_parity
    /\ pk_prev' = IF pk_phase = "finalized" THEN <<pk_with>> ELSE <<>>
    /\ UNCHANGED <<pk_fields, pk_type, pk_args, pk_parsed, pk_channel>>
    /\ UNCHANGED notPacket

\* The receiver of the finalized bytes: Packet request(bytes, has_parity,
\* check_parity), then queueIndex(request), which asks for its channel.
Parse(has_parity, check_parity) ==
    /\ pk_phase = "finalized"
    /\ pk_phase' = "parsed"
    /\ pk_args' = <<has_parity, check_parity>>
    /\ IF PacketValid(pk.buffer, has_parity, check_parity)
       THEN /\ pk_parsed' = PacketParse(pk.buffer, has_parity)
            /\ pk_channel' = Packet_channel(PacketParse(pk.buffer, has_parity))
       ELSE UNCHANGED <<pk_parsed, pk_channel>>
    /\ UNCHANGED <<pk, pk_fields, pk_with, pk_prev, pk_type>>
    /\ UNCHANGED notPacket

NextPacket ==
    \/ \E type \in {CONTROL, CHANNEL, SPEECH} : Construct(type)
    \/ \E field \in Fields : AppendField(field)
    \/ \E with_parity \in BOOLEAN : Finalize(with_parity)
    \/ \E has_parity \in BOOLEAN, cp \in BOOLEAN : Parse(has_parity, cp)

SpecPacket == Init /\ [][NextPacket]_vars

(***************************************************************************)
(* The parsing constructor on the byte strings a device may deliver: the   *)
(* bytes are read one at a time, then Packet(bytes, has_parity,            *)
(* check_parity) is constructed.                                           *)
(***************************************************************************)
\* The byte values read in the model: 0 and 2 (length bytes, CONTROL and
\* SPEECH), 3 (PacketType::MAX), the PARITY tag and the start byte.
RxAlphabet == {0, 2, 3, PARITY, START_BYTE}

Receive(b) ==
    /\ rx_result = "none"
    /\ Len(rx_bytes) < MaxBytes
    /\ rx_bytes' = Append(rx_bytes, b)
    /\ UNCHANGED <<rx_args, rx_result>>
    /\ UNCHANGED notRx

ParseBytes(has_parity, cp) ==
    /\ rx_result = "none"
    /\ rx_args' = <<has_parity, cp>>
    /\ rx_result' = IF PacketValid(rx_bytes, has_parity, cp)
                    THEN "packet" ELSE "error"
    /\ UNCHANGED rx_bytes
    /\ UNCHANGED notRx

NextParse ==
    \/ \E b \in RxAlphabet : Receive(b)
    \/ \E has_parity \in BOOLEAN, cp \in BOOLEAN : ParseBytes(has_parity, cp)

SpecParse == Init /\ [][NextParse]_vars

(***************************************************************************)
(* DeviceManager (device.cc): the pool of channels of the attached         *)
(* devices.  The calls are made one after the other.                       *)
(***************************************************************************)
\* The ids the calls are made with.
DmIds == {"a", "b"}
\* device.channels(): Usb3000 and Usb3003.
DmChannels == {1, 3}
\* The channel numbers releaseChannel is called with.
DmChannelArgs == 0 .. 3

\* The orders in which an unordered_map with the keys `ids' may be
\* iterated.
Orders(ids) ==
    {o \in [1 .. Cardinality(ids) -> ids] :
        \A i, j \in 1 .. Cardinality(ids) : i # j => o[i] # o[j]}

\* The record of a call.
DmCall(op, id, channel, ok) ==
    [op |-> op, id |-> id, channel |-> channel, ok |-> ok,
     flip |-> 1 - dm_last.flip]

\* DeviceManager::add
add(id, n) ==
    /\ IF id \notin DOMAIN devices
       THEN /\ devices' = [d \in DOMAIN devices \cup {id} |->
                              IF d = id THEN [i \in 0 .. n - 1 |-> FALSE]
                              ELSE devices[d]]
            \* the insertion may rehash the map
            /\ dm_order' \in Orders(DOMAIN devices \cup {id})
            /\ dm_last' = DmCall("add", id, 0, TRUE)
       ELSE /\ dm_last' = DmCall("add", id, 0, FALSE)
            /\ UNCHANGED <<devices, dm_order>>
    /\ UNCHANGED <<dm_held, dm_released>>
    /\ UNCHANGED notDm

\* The inner loop scanning from the last index down.
LastFree(bits) ==
    CHOOSE i \in DOMAIN bits : ~bits[i] /\ \A j \in DOMAIN bits : j > i => bits[j]

\* The first index the inner loop of acquireChannel finds free.
FirstFree(bits) ==
    CHOOSE i \in DOMAIN bits : ~bits[i] /\ \A j \in DOMAIN bits : j < i => bits[j]

\* The positions of dm_order whose device has a free channel.
WithFree == {k \in 1 .. Len(dm_order) :
                \E i \in DOMAIN devices[dm_order[k]] : ~devices[dm_order[k]][i]}

\* DeviceManager::acquireChannel
acquireChannel ==
    /\ IF WithFree # {}
       THEN LET k == CHOOSE x \in WithFree : \A y \in WithFree : x <= y
                id == dm_order[k]
                i == FirstFree(devices[id])
            IN /\ devices' = [devices EXCEPT ![id][i] = TRUE]
               /\ dm_last' = DmCall("acquire", id, i, TRUE)
               /\ dm_held' = dm_held \cup {<<id, i>>}
       ELSE /\ dm_last' = DmCall("acquire", "", 0, FALSE)
            /\ UNCHANGED <<devices, dm_held>>
    /\ UNCHANGED <<dm_order, dm_released>>
    /\ UNCHANGED notDm

\* The range test with <= for <.
InRangeInclusive(channel, size) == channel <= size /\ channel >= 0

\* releaseChannel: channel < channels.size() && channel >= 0
InRange(channel, size) == channel < size /\ channel >= 0

\* DeviceManager::releaseChannel
releaseChannel(id, channel) ==
    /\ IF id \notin DOMAIN devices
       THEN /\ dm_last' = DmCall("release", id, channel, FALSE)
            /\ UNCHANGED <<devices, dm_held, dm_released>>
       ELSE IF InRange(channel, Cardinality(DOMAIN devices[id]))
       THEN /\ devices' = [devices EXCEPT ![id][channel] = FALSE]
            /\ dm_last' = DmCall("release", id, channel, TRUE)
            /\ dm_held' = dm_held \ {<<id, channel>>}
            /\ dm_released' = dm_released \cup {<<id, channel>>}
       ELSE /\ dm_last' = DmCall("release", id, channel, FALSE)
            /\ UNCHANGED <<devices, dm_held, dm_released>>
    /\ UNCHANGED dm_order
    /\ UNCHANGED notDm

NextDm ==
    \/ \E id \in DmIds, n \in DmChannels : add(id, n)
    \/ acquireChannel
    \/ \E id \in DmIds, channel \in DmChannelArgs : releaseChannel(id, channel)

SpecDm == Init /\ [][NextDm]_vars

(***************************************************************************)
(* DeviceManager used by the bind handlers of the RPC server, which run    *)
(* on several threads at once.  DeviceManager has no lock, so the steps of *)
(* acquireChannel and releaseChannel of different threads interleave.  The *)
(* bits of a vector<bool> share a word: writing one bit loads the word,    *)
(* changes the bit and stores the word.                                    *)
(***************************************************************************)
\* AmbeServiceImpl(pathname): DeviceManager(id, device, scheduler) adds the
\* one device of the server.
PoolAdd(n) ==
    /\ devices = <<>>
    /\ add("a", n)
    /\ UNCHANGED poolVars

\* acquireChannel, the loops up to `if (!channels[i])': the thread finds a free
\* bit.  With no bit free the call throws and the handler returns an error.
PoolScan(t) ==
    /\ pool_pc[t] = "idle"
    /\ WithFree # {}
    /\ LET k == CHOOSE x \in WithFree : \A y \in WithFree : x <= y
           id == dm_order[k]
       IN pool_slot' = [pool_slot EXCEPT ![t] = <<id, FirstFree(devices[id])>>]
    /\ pool_pc' = [pool_pc EXCEPT ![t] = "load"]
    /\ UNCHANGED pool_word
    /\ UNCHANGED <<dmVars, notPool>>

\* `channels[i] = true', first half: the word is loaded.
PoolLoad(t) ==
    /\ pool_pc[t] = "load"
    /\ pool_word' = [pool_word EXCEPT ![t] = devices[pool_slot[t][1]]]
    /\ pool_pc' = [pool_pc EXCEPT ![t] = "store"]
    /\ UNCHANGED pool_slot
    /\ UNCHANGED <<dmVars, notPool>>

\* `channels[i] = true', second half: the word is stored with the bit set;
\* acquireChannel returns the slot.
PoolStore(t) ==
    /\ pool_pc[t] = "store"
    /\ devices' = [devices EXCEPT ![pool_slot[t][1]] =
                      [pool_word[t] EXCEPT ![pool_slot[t][2]] = TRUE]]
    /\ pool_pc' = [pool_pc EXCEPT ![t] = "holding"]
    /\ UNCHANGED <<pool_slot, pool_word>>
    /\ UNCHANGED <<dm_order, dm_last, dm_held, dm_released>>
    /\ UNCHANGED notPool

\* releaseChannel(channel.first, channel.second) up to `channels[channel] =
\* false', first half: the word is loaded.
PoolReleaseLoad(t) ==
    /\ pool_pc[t] = "holding"
    /\ pool_word' = [pool_word EXCEPT ![t] = devices[pool_slot[t][1]]]
    /\ pool_pc' = [pool_pc EXCEPT ![t] = "rstore"]
    /\ UNCHANGED pool_slot
    /\ UNCHANGED <<dmVars, notPool>>

\* `channels[channel] = false', second half: the word is stored with the bit
\* cleared; the handler returns.
PoolReleaseStore(t) ==
    /\ pool_pc[t] = "rstore"
    /\ devices' = [devices EXCEPT ![pool_slot[t][1]] =
                      [pool_word[t] EXCEPT ![pool_slot[t][2]] = FALSE]]
    /\ pool_pc' = [pool_pc EXCEPT ![t] = "idle"]
    /\ pool_slot' = [pool_slot EXCEPT ![t] = <<>>]
    /\ pool_word' = [pool_word EXCEPT ![t] = <<>>]
    /\ UNCHANGED <<dm_order, dm_last, dm_held, dm_released>>
    /\ UNCHANGED notPool

\* The handlers that hold a slot: acquireChannel has returned it and
\* releaseChannel has not yet cleared it.
PoolHolders == {t \in PoolThreads : pool_pc[t] \in {"holding", "rstore"}}

\* The slots of the devices added.
PoolSlots ==
    UNION {{<<id, i>> : i \in DOMAIN devices[id]} : id \in DOMAIN devices}

NextPool ==
    \/ \E n \in DmChannels : PoolAdd(n)
    \/ \E t \in PoolThreads :
          \/ PoolScan(t)
          \/ PoolLoad(t)
          \/ PoolStore(t)
          \/ PoolReleaseLoad(t)
          \/ PoolReleaseStore(t)

SpecPool == Init /\ [][NextPool]_vars

(***************************************************************************)
(* AmbeServiceImpl::bind (ambed.cc) on the MultiQueueScheduler above: each *)
(* client stream has a handler thread that reads requests and submits      *)
(* them; the callback of a request writes the response to the stream.      *)
(* The scheduler of the server is started once and never stopped.          *)
(***************************************************************************)
\* The tags the clients put into their requests.
Tags == {0, 1}
\* The requests the clients send: device-global CONTROL packets and SPEECH
\* packets for channel 0.
BindShapes == {[type |-> CONTROL, channel |-> NoChannel],
               [type |-> SPEECH, channel |-> 0]}

\* One iteration of the loop of bind on a well-formed request: stream->Read,
\* the lambda [tag, stream], Packet(request.data(), uses_parity, false),
\* scheduler.submitAsync.  len is the payload length of the request: 0 for
\* a request that holds a header only, 1 for any request with fields.
BindRead(stream, tag, shape, len) ==
    /\ runner # "none"
    /\ nsubmit < MaxBindRequests
    /\ Len(process) < MaxProcess
    /\ len = 0 =>
          Cardinality({c \in 1 .. Len(bind_reqs) : bind_reqs[c].len = 0})
              < MaxEmptyRequests
    /\ LET id == nsubmit + 1
           packet == [type |-> shape.type, channel |-> shape.channel,
                      payloadLength |-> len, seq |-> id]
       IN /\ process' = Append(process, [packet |-> packet, callback |-> <<id>>])
          /\ nsubmit' = id
    /\ bind_reqs' = Append(bind_reqs, [stream |-> stream, tag |-> tag, len |-> len])
    /\ UNCHANGED <<device_queue, channel_queue, submitted, submitted_by_type,
                   submitted_by_queue, next, quit, queued, terminated, runner,
                   stopper, recvCallback, chip>>
    /\ UNCHANGED <<nsent, delivered, handled, empties, sent, invocations,
                   stopPending>>
    /\ UNCHANGED notBind

\* The rpc::Packet the callback of request c writes when it is invoked with
\* packet number seq of the device (0 for Packet()): response.set_tag(tag),
\* response.set_data(packet.data()), stream->Write(response).
BindWrite(c, seq) ==
    [stream |-> bind_reqs[c].stream, tag |-> bind_reqs[c].tag, data |-> seq]

NextBind ==
    \/ Start
    \/ \E stream \in Streams, tag \in Tags, shape \in BindShapes, len \in {0, 1} :
          BindRead(stream, tag, shape, len)
    \/ \E len \in {0, 1} : DeviceDeliver(len)
    \/ Run

SpecBind == Init /\ [][NextBind]_vars

(***************************************************************************)
(* A bind session from acquireChannel to the return of the handler.  The   *)
(* loop of the handler ends when stream->Read returns false: the client    *)
(* has finished writing or has gone.                                       *)
(***************************************************************************)
\* bind up to SendInitialMetadata: acquireChannel gives the session a slot.
\* With no slot free the handler returns UNAVAILABLE.  The server accepts
\* calls once AmbeServiceImpl, and with it the DeviceManager, is constructed.
SessionOpen(stream) ==
    /\ devices # <<>>
    /\ sess_state[stream] = "none"
    /\ IF WithFree # {}
       THEN LET k == CHOOSE x \in WithFree : \A y \in WithFree : x <= y
                id == dm_order[k]
                i == FirstFree(devices[id])
            IN /\ devices' = [devices EXCEPT ![id][i] = TRUE]
               /\ sess_channel' = [sess_channel EXCEPT ![stream] = <<id, i>>]
               /\ sess_state' = [sess_state EXCEPT ![stream] = "open"]
       ELSE /\ sess_state' = [sess_state EXCEPT ![stream] = "returned"]
            /\ UNCHANGED <<devices, sess_channel>>
    /\ UNCHANGED <<dm_order, dm_last, dm_held, dm_released>>
    /\ UNCHANGED <<mqAll, notSess>>

\* One iteration of the loop of the handler of an open session.
SessionRead(stream, tag, shape, len) ==
    /\ sess_state[stream] = "open"
    /\ BindRead(stream, tag, shape, len)

\* stream->Read returns false: releaseChannel(channel.first, channel.second)
\* and return Status::OK.
SessionEnd(stream) ==
    /\ sess_state[stream] = "open"
    /\ devices' = [devices EXCEPT
                      ![sess_channel[stream][1]][sess_channel[stream][2]] = FALSE]
    /\ sess_state' = [sess_state EXCEPT ![stream] = "returned"]
    /\ UNCHANGED sess_channel
    /\ UNCHANGED <<dm_order, dm_last, dm_held, dm_released>>
    /\ UNCHANGED <<mqAll, notSess>>

\* The requests of a session whose callback has not been invoked.
SessionPending(stream) ==
    {c \in 1 .. Len(bind_reqs) :
        bind_reqs[c].stream = stream /\ invocations[c] = 0}

NextSession ==
    \/ Start
    \/ \E n \in DmChannels : PoolAdd(n)
    \/ \E stream \in Streams : SessionOpen(stream)
    \/ \E stream \in Streams, tag \in Tags, shape \in BindShapes, len \in {0, 1} :
          SessionRead(stream, tag, shape, len)
    \/ \E stream \in Streams : SessionEnd(stream)
    \/ \E len \in {0, 1} : DeviceDeliver(len)
    \/ Run

SpecSession == Init /\ [][NextSession]_vars

(***************************************************************************)
(* UartDevice (serial.cc): the reader thread in packetReceiver /           *)
(* readPacket / safeCancellableRead, the serial port it reads, and the     *)
(* thread that calls stop().  One step of the reader is one system call:   *)
(* select or read.                                                         *)
(***************************************************************************)
\* FD_ZERO(&fds); FD_SET(rfd, &fds); FD_SET(rpipe, &fds);
BothFds == {"rfd", "rpipe"}

\* The descriptors of `fds' that select finds readable: the port when bytes
\* wait or the link is lost, the pipe when stop has written to it.
Ready(fds) ==
    {fd \in fds : \/ fd = "rfd" /\ (ser_avail > 0 \/ ser_link # "up")
                  \/ fd = "rpipe" /\ ser_pipe}

\* select leaves in fds the descriptors that are ready; the loop of
\* safeCancellableRead passes the same fds to the next select.
AfterSelect(ready) == ready

\* UartDevice::start: the pipe, the port, the reader thread, which enters
\* readPacket and safeCancellableRead(buffer, 1).
SerStart ==
    /\ ser_reader = "none"
    /\ ser_reader' = "running"
    /\ ser_stage' = "start"
    /\ ser_pc' = "select"
    /\ ser_n' = 1
    /\ ser_len' = 0
    /\ ser_fds' = BothFds
    /\ UNCHANGED <<ser_avail, ser_arrived, ser_link, ser_pipe, ser_stop,
                   ser_packets, ser_partial>>
    /\ UNCHANGED notSer

\* Bytes arrive on the serial port.
SerArrive(k) ==
    /\ ser_reader # "none"
    /\ ser_link = "up"
    /\ ser_arrived + k <= MaxSerialBytes
    /\ ser_avail' = ser_avail + k
    /\ ser_arrived' = ser_arrived + k
    /\ UNCHANGED <<ser_reader, ser_stage, ser_pc, ser_n, ser_len, ser_fds,
                   ser_link, ser_pipe, ser_stop, ser_packets, ser_partial>>
    /\ UNCHANGED notSer

\* The link is lost: reads return 0 (EOF) or fail with EIO.
SerLinkLoss(how) ==
    /\ ser_reader # "none"
    /\ ser_link = "up"
    /\ ser_link' = how
    /\ UNCHANGED <<ser_reader, ser_stage, ser_pc, ser_n, ser_len, ser_fds,
                   ser_avail, ser_arrived, ser_pipe, ser_stop, ser_packets,
                   ser_partial>>
    /\ UNCHANGED notSer

\* select returns.  With the pipe readable safeCancellableRead returns
\* false, readPacket returns false and the loop of packetReceiver ends.
SerSelect ==
    /\ ser_reader = "running"
    /\ ser_pc = "select"
    /\ Ready(ser_fds) # {}
    /\ ser_fds' = AfterSelect(Ready(ser_fds))
    /\ IF "rpipe" \in Ready(ser_fds)
       THEN /\ ser_reader' = "returned"
            /\ UNCHANGED ser_pc
       ELSE /\ ser_pc' = "read"
            /\ UNCHANGED ser_reader
    /\ UNCHANGED <<ser_stage, ser_n, ser_len, ser_avail, ser_arrived,
                   ser_link, ser_pipe, ser_stop, ser_packets, ser_partial>>
    /\ UNCHANGED notSer

\* select fails with an error other than EINTR: system_error is thrown,
\* packetReceiver logs and rethrows it.
SerSelectError ==
    /\ ser_reader = "running"
    /\ ser_pc = "select"
    /\ ser_reader' = "fatal"
    /\ UNCHANGED <<ser_stage, ser_pc, ser_n, ser_len, ser_fds, ser_avail,
                   ser_arrived, ser_link, ser_pipe, ser_stop, ser_packets,
                   ser_partial>>
    /\ UNCHANGED notSer

\* read returns bytes.  When the call has its n bytes readPacket goes on:
\* a byte that is no start byte is dropped, the start byte is followed by
\* the rest of the header, the header by getLength() bytes, and the
\* complete packet is handed to recv.  isStart and hdrLen are the values
\* of the bytes read.
SerRead(isStart, hdrLen) ==
    /\ ser_reader = "running"
    /\ ser_pc = "read"
    /\ ser_avail > 0
    /\ LET want == ser_n - ser_len
           rc == IF ser_avail < want THEN ser_avail ELSE want
           done == ser_len + rc = ser_n
       IN /\ ser_avail' = ser_avail - rc
          /\ ser_pc' = "select"
          /\ IF ~done
             THEN /\ ser_len' = ser_len + rc
                  /\ ser_partial' = TRUE
                  /\ UNCHANGED <<ser_stage, ser_n, ser_fds, ser_packets>>
             ELSE /\ ser_len' = 0
                  /\ ser_fds' = BothFds
                  /\ CASE ser_stage = "start" /\ ~isStart ->
                             /\ ser_n' = 1
                             /\ ser_partial' = FALSE
                             /\ UNCHANGED <<ser_stage, ser_packets>>
                       [] ser_stage = "start" /\ isStart ->
                             /\ ser_stage' = "header"
                             /\ ser_n' = sizeofHeader - 1
                             /\ ser_partial' = TRUE
                             /\ UNCHANGED ser_packets
                       [] ser_stage = "header" /\ hdrLen > 0 ->
                             /\ ser_stage' = "payload"
                             /\ ser_n' = hdrLen
                             /\ ser_partial' = TRUE
                             /\ UNCHANGED ser_packets
                       [] OTHER ->
                             /\ ser_stage' = "start"
                             /\ ser_n' = 1
                             /\ ser_partial' = FALSE
                             /\ ser_packets' = ser_packets + 1
    /\ UNCHANGED <<ser_reader, ser_arrived, ser_link, ser_pipe, ser_stop>>
    /\ UNCHANGED notSer

\* read returns 0 at end of file, or -1 with EIO.  At end of file errno
\* holds what an earlier call left there: with EWOULDBLOCK the loop
\* continues, otherwise safeCancellableRead returns false, as it does for
\* EIO, and the loop of packetReceiver ends.
SerReadFails(stale) ==
    /\ ser_reader = "running"
    /\ ser_pc = "read"
    /\ ser_avail = 0
    /\ ser_link # "up"
    /\ IF ser_link = "eof" /\ stale
       THEN /\ ser_pc' = "select"
            /\ UNCHANGED ser_reader
       ELSE /\ ser_reader' = "returned"
            /\ UNCHANGED ser_pc
    /\ UNCHANGED <<ser_stage, ser_n, ser_len, ser_fds, ser_avail,
                   ser_arrived, ser_link, ser_pipe, ser_stop, ser_packets,
                   ser_partial>>
    /\ UNCHANGED notSer

\* UartDevice::stop, first half: write(wpipe, "Q", 1), then receiver.join()
SerStop ==
    /\ ser_reader # "none"
    /\ ser_stop = "idle"
    /\ ser_pipe' = TRUE
    /\ ser_stop' = "joining"
    /\ UNCHANGED <<ser_reader, ser_stage, ser_pc, ser_n, ser_len, ser_fds,
                   ser_avail, ser_arrived, ser_link, ser_packets,
                   ser_partial>>
    /\ UNCHANGED notSer

\* UartDevice::stop, second half: join returns, the descriptors are closed.
SerStopReturn ==
    /\ ser_stop = "joining"
    /\ ser_reader = "returned"
    /\ ser_stop' = "done"
    /\ UNCHANGED <<ser_reader, ser_stage, ser_pc, ser_n, ser_len, ser_fds,
                   ser_avail, ser_arrived, ser_link, ser_pipe, ser_packets,
                   ser_partial>>
    /\ UNCHANGED notSer

NextSerial ==
    \/ SerStart
    \/ \E k \in 1 .. 2 : SerArrive(k)
    \/ \E how \in {"eof", "error"} : SerLinkLoss(how)
    \/ SerSelect
    \/ SerSelectError
    \/ \E isStart \in BOOLEAN, hdrLen \in 0 .. MaxSerialPayload :
          SerRead(isStart, hdrLen)
    \/ \E stale \in BOOLEAN : SerReadFails(stale)
    \/ SerStop
    \/ SerStopReturn

SpecSerial == Init /\ [][NextSerial]_vars

(***************************************************************************)
(* The Rate constructor that takes a string (api.cc).  The argument is a   *)
(* string of words separated by single commas.  A word is written          *)
(* [val, junk]: val is the number its leading digits spell, -1 when it     *)
(* does not start with a digit, and junk tells whether characters follow   *)
(* the digits.                                                             *)
(***************************************************************************)
\* The words of the model: 255, 65535, 65536, x, 255x.
RateWords ==
    {[val |-> 255, junk |-> FALSE], [val |-> 65535, junk |-> FALSE],
     [val |-> 65536, junk |-> FALSE], [val |-> -1, junk |-> TRUE],
     [val |-> 255, junk |-> TRUE]}

\* Rate::parseNumber on a string that starts with word w: strtol reads the
\* leading digits and stops at the first other character (a comma, junk
\* or the end); rate == end when there is no digit.
parseNumber(w, max) ==
    IF w.val = -1 THEN -1
    ELSE IF w.val < 0 \/ w.val > max THEN -1
    ELSE w.val

\* Rate::parseRatet
parseRatet(words) ==
    IF words = <<>> THEN -1 ELSE parseNumber(words[1], 255)

\* Rate::parseRatep: <<>> for nullptr.  strtok yields the words in turn.
parseRatep(words) ==
    IF Len(words) < 6 THEN <<>>
    ELSE IF \E i \in 1 .. 6 : parseNumber(words[i], 65535) < 0 THEN <<>>
    ELSE IF Len(words) > 6 THEN <<>>
    ELSE [i \in 1 .. 6 |-> parseNumber(words[i], 65535)]

\* Rate::Rate(const char*)
Rate(words) ==
    IF parseRatet(words) >= 0
    THEN [type |-> "RATET", index |-> parseRatet(words), rcw |-> <<>>]
    ELSE IF parseRatep(words) = <<>>
    THEN [type |-> "error", index |-> 0, rcw |-> <<>>]
    ELSE [type |-> "RATEP", index |-> 0, rcw |-> parseRatep(words)]

\* One more word of the argument.
RateWord(w) ==
    /\ rate_result = NoRate
    /\ Len(rate_words) < MaxWords
    /\ rate_words' = Append(rate_words, w)
    /\ UNCHANGED rate_result
    /\ UNCHANGED notRate

\* Rate rate(argument)
RateConstruct ==
    /\ rate_result = NoRate
    /\ rate_result' = Rate(rate_words)
    /\ UNCHANGED rate_words
    /\ UNCHANGED notRate

NextRate ==
    \/ \E w \in RateWords : RateWord(w)
    \/ RateConstruct

SpecRate == Init /\ [][NextRate]_vars


(***************************************************************************)
(* The API (api.cc) on top of a scheduler and a FifoDevice.  One thread    *)
(* makes the calls, one after the other; submit hands the request to the   *)
(* chip, the reader thread of the device hands the chip's packet to the    *)
(* installed callback, and the scheduler resolves the future in the order  *)
(* of the requests.                                                        *)
(***************************************************************************)
\* API(device, scheduler, check_parity = true)
check_parity == TRUE

\* The channels the calls are made for.
ApiChannels == {0, 1}

\* Packet::checkParity: TRUE when it returns true; it throws or returns
\* false otherwise, and the API call throws in both cases.
checkParity(packet) ==
    /\ packet.has_parity
    /\ Len(packet.buffer) >= sizeofHeader + sizeofParityField
    /\ packet.buffer[Len(packet.buffer) - 1] = PARITY
    /\ parity(ParityData(packet.buffer)) = packet.buffer[Len(packet.buffer)]

\* parse without the test of the packet type.
parseNoType(packet, size, type, field) ==
    IF ~PayloadFits(packet, 0, size) THEN FALSE
    ELSE payloadByte(packet, 0) = field

\* parse<T>(packet, type, args...), T of `size' bytes, valid(field): TRUE
\* when it returns without throwing.
parse(packet, size, type, field) ==
    IF packet.buffer[4] # type THEN FALSE
    ELSE IF ~PayloadFits(packet, 0, size) THEN FALSE
    ELSE payloadByte(packet, 0) = field

\* parse<T>(packet, type, channel, args...)
parseChannel(packet, size, type, channel, field) ==
    IF packet.buffer[4] # type THEN FALSE
    ELSE IF ~PayloadFits(packet, 0, sizeofStatusField) THEN FALSE
    ELSE IF payloadByte(packet, 0) # CHANNEL0 + channel THEN FALSE
    ELSE IF payloadByte(packet, 1) # 0 THEN FALSE
    ELSE IF ~PayloadFits(packet, sizeofStatusField, size) THEN FALSE
    ELSE payloadByte(packet, sizeofStatusField) = field

\* parseStatus(packet, args...)
parseStatus(packet, field) ==
    IF ~parse(packet, sizeofStatusField, CONTROL, field) THEN FALSE
    ELSE payloadByte(packet, 1) = 0

\* parseStatus(packet, channel, args...)
parseStatusChannel(packet, channel, field) ==
    IF ~parseChannel(packet, sizeofStatusField, CONTROL, channel, field) THEN FALSE
    ELSE payloadByte(packet, sizeofStatusField + 1) = 0

\* The field type of a channel command.
CmdField(name) ==
    CASE name = "ecmode" -> ECMODE
      [] name = "dcmode" -> DCMODE
      [] name = "ratet"  -> RATET
      [] name = "ratep"  -> RATEP
      [] name = "init"   -> INIT

\* The bytes of the field the command appends after the ChannelField:
\* ModeField, RatetField(33), RatepField (six words), InitField(true, true).
CmdBytes(name) ==
    CASE name = "ecmode" -> <<ECMODE, 0>>
      [] name = "dcmode" -> <<DCMODE, 0>>
      [] name = "ratet"  -> <<RATET, 33>>
      [] name = "ratep"  -> <<RATEP, 0, 0, 0, 0, 0, 0, 0, 0, 0, 0, 0, 0>>
      [] name = "init"   -> <<INIT, 3>>

ChannelCommands == {"ecmode", "dcmode", "ratet", "ratep", "init"}

\* if (check_parity && device.uses_parity && !response.checkParity()) throw
ParityAccepted(packet, uses) == ~(check_parity /\ uses /\ ~checkParity(packet))

\* The checks an API call makes on the response: TRUE when the call returns
\* normally.  setMode passes no channel to parseStatus.
ResponseAccepted(op, packet, uses) ==
    CASE op.name = "softReset" -> parse(packet, sizeofField, CONTROL, READY)
      [] op.name = "paritymode" ->
             ParityAccepted(packet, uses) /\ parseStatus(packet, PARITYMODE)
      [] op.name \in {"ecmode", "dcmode"} ->
             ParityAccepted(packet, uses) /\ parseStatus(packet, CmdField(op.name))
      [] op.name \in {"ratet", "ratep", "init"} ->
             /\ ParityAccepted(packet, uses)
             /\ parseStatusChannel(packet, op.channel, CmdField(op.name))

\* A CONTROL packet of the chip with the given fields.
ControlPacket(fields, with_parity) ==
    finalize(PacketAppend(PacketNew(CONTROL), fields), with_parity).buffer

\* What the chip may answer.  PARITYMODE is answered in the new format,
\* RESET by READY with parity, a channel command in the format of the
\* request: by the status of the channel field followed by the status of
\* the command, or by the status of the command alone.
ChipResponses(op, req) ==
    CASE op.name = "paritymode" -> {ControlPacket(<<PARITYMODE, 0>>, op.mode > 0)}
      [] op.name = "softReset" -> {ControlPacket(<<READY>>, TRUE)}
      [] op.name \in ChannelCommands ->
           {ControlPacket(<<CHANNEL0 + x, s1, CmdField(op.name), s2>>, req.has_parity) :
                x \in ApiChannels, s1 \in {0, 1}, s2 \in {0, 1}}
           \cup {ControlPacket(<<CmdField(op.name), 0>>, req.has_parity)}
      [] OTHER -> {}

\* What the device may deliver while hardReset waits: READY, READY in a
\* SPEECH packet, another CONTROL packet, READY without parity field,
\* READY with a wrong start byte.
HardResetPackets ==
    {ControlPacket(<<READY>>, TRUE),
     finalize(PacketAppend(PacketNew(SPEECH), <<READY>>), TRUE).buffer,
     ControlPacket(<<PARITYMODE, 0>>, TRUE),
     ControlPacket(<<READY>>, FALSE),
     [ControlPacket(<<READY>>, TRUE) EXCEPT ![1] = 0]}

\* API::paritymode with the request submitted before uses_parity is written.
paritymodeOrderLate == <<"submit", "write">>

\* API::paritymode: device.uses_parity = parity; then scheduler.submit(request)
paritymodeOrder == <<"write", "submit">>

\* The callback of hardReset: TRUE when it reaches retval.set_value().
HardResetAccepts(packet) ==
    /\ PacketValid(packet, TRUE, FALSE)
    /\ parse([buffer |-> packet, has_parity |-> TRUE], sizeofField, CONTROL, READY)

\* API::paritymode(mode) up to request.finalize(device.uses_parity)
ApiParitymode(mode) ==
    /\ api_pc = "idle"
    /\ api_ops < MaxOps
    /\ api_reader = "running"
    /\ api_op' = [name |-> "paritymode", channel |-> 0, mode |-> mode]
    /\ api_request' = finalize(PacketAppend(PacketNew(CONTROL),
                                <<PARITYMODE, IF mode > 0 THEN 1 ELSE 0>>),
                            uses_parity)
    /\ api_pc' = "paritymode"
    /\ api_i' = 1
    /\ api_ops' = api_ops + 1
    /\ api_result' = "none"
    /\ api_future' = "none"
    /\ api_response' = NoPacket
    /\ parsed_with' = <<>>
    /\ zero_bytes' = 0
    /\ hr_seen' = {}
    /\ hr_packets' = 0
    /\ hr_promise' = "unset"
    /\ UNCHANGED <<uses_parity, chip_in, chip_out, dev_callback, hr_prev,
                   api_reader>>
    /\ UNCHANGED notApi

\* API::paritymode: device.uses_parity = parity
PmWrite ==
    /\ api_pc = "paritymode"
    /\ paritymodeOrder[api_i] = "write"
    /\ uses_parity' = (api_op.mode > 0)
    /\ api_i' = api_i + 1
    /\ api_pc' = IF api_i = 2 THEN "await" ELSE "paritymode"
    /\ UNCHANGED <<api_op, api_ops, api_request, zero_bytes, chip_in,
                   chip_out, api_future, api_response, parsed_with,
                   api_result, dev_callback, hr_prev, hr_promise, hr_seen,
                   hr_packets, api_reader>>
    /\ UNCHANGED notApi

\* API::paritymode: scheduler.submit(request)
PmSubmit ==
    /\ api_pc = "paritymode"
    /\ paritymodeOrder[api_i] = "submit"
    /\ chip_in = <<>>
    /\ chip_in' = api_request.buffer
    /\ api_future' = "pending"
    /\ api_i' = api_i + 1
    /\ api_pc' = IF api_i = 2 THEN "await" ELSE "paritymode"
    /\ UNCHANGED <<uses_parity, api_op, api_ops, api_request, zero_bytes,
                   chip_out, api_response, parsed_with, api_result,
                   dev_callback, hr_prev, hr_promise, hr_seen, hr_packets,
                   api_reader>>
    /\ UNCHANGED notApi

\* API::reset(false): softReset up to the loop
ApiSoftReset ==
    /\ api_pc = "idle"
    /\ api_ops < MaxOps
    /\ api_reader = "running"
    /\ api_op' = [name |-> "softReset", channel |-> 0, mode |-> 0]
    /\ api_request' = NoPacket
    /\ api_pc' = "zeros"
    /\ api_i' = 0
    /\ api_ops' = api_ops + 1
    /\ api_result' = "none"
    /\ api_future' = "none"
    /\ api_response' = NoPacket
    /\ parsed_with' = <<>>
    /\ zero_bytes' = 0
    /\ hr_seen' = {}
    /\ hr_packets' = 0
    /\ hr_promise' = "unset"
    /\ UNCHANGED <<uses_parity, chip_in, chip_out, dev_callback, hr_prev,
                   api_reader>>
    /\ UNCHANGED notApi

\* API::softReset: one iteration of the loop, dev->send(zero)
SendZero ==
    /\ api_pc = "zeros"
    /\ api_i < ZeroSends
    /\ api_i' = api_i + 1
    /\ zero_bytes' = zero_bytes + ZeroLength
    /\ UNCHANGED <<uses_parity, api_pc, api_op, api_ops, api_request, chip_in,
                   chip_out, api_future, api_response, parsed_with,
                   api_result, dev_callback, hr_prev, hr_promise, hr_seen,
                   hr_packets, api_reader>>
    /\ UNCHANGED notApi

\* API::softReset: build RESET, finalize(device.uses_parity), submit
ResetSubmit ==
    /\ api_pc = "zeros"
    /\ ~(api_i < ZeroSends)
    /\ chip_in = <<>>
    /\ api_request' = finalize(PacketAppend(PacketNew(CONTROL), <<RESET>>), uses_parity)
    /\ chip_in' = api_request'.buffer
    /\ api_future' = "pending"
    /\ api_pc' = "await"
    /\ UNCHANGED <<uses_parity, api_op, api_i, api_ops, zero_bytes, chip_out,
                   api_response, parsed_with, api_result, dev_callback,
                   hr_prev, hr_promise, hr_seen, hr_packets, api_reader>>
    /\ UNCHANGED notApi

\* API::setMode / ratet / ratep / init up to scheduler.submit(request)
ApiCommand(name, channel) ==
    /\ api_pc = "idle"
    /\ api_ops < MaxOps
    /\ api_reader = "running"
    /\ chip_in = <<>>
    /\ api_op' = [name |-> name, channel |-> channel, mode |-> 0]
    /\ api_request' = finalize(PacketAppend(PacketAppend(PacketNew(CONTROL),
                                             <<CHANNEL0 + channel>>),
                                CmdBytes(name)),
                            uses_parity)
    /\ chip_in' = api_request'.buffer
    /\ api_pc' = "await"
    /\ api_i' = 0
    /\ api_ops' = api_ops + 1
    /\ api_result' = "none"
    /\ api_future' = "pending"
    /\ api_response' = NoPacket
    /\ parsed_with' = <<>>
    /\ zero_bytes' = 0
    /\ hr_seen' = {}
    /\ hr_packets' = 0
    /\ hr_promise' = "unset"
    /\ UNCHANGED <<uses_parity, chip_out, dev_callback, hr_prev, api_reader>>
    /\ UNCHANGED notApi

\* The chip answers the request; the reader thread frames the answer.
ChipAnswer(packet) ==
    /\ chip_in # <<>>
    /\ chip_out = <<>>
    /\ packet \in ChipResponses(api_op, api_request)
    /\ chip_in' = <<>>
    /\ chip_out' = packet
    /\ UNCHANGED <<uses_parity, api_pc, api_op, api_i, api_ops, api_request,
                   zero_bytes, api_future, api_response, parsed_with,
                   api_result, dev_callback, hr_prev, hr_promise, hr_seen,
                   hr_packets, api_reader>>
    /\ UNCHANGED notApi

\* The reader thread calls the scheduler's recv, which builds
\* Packet(packet, device.uses_parity, false); the scheduler resolves the
\* future of the outstanding request with it.  When the constructor throws
\* the reader thread ends.
ReaderRecv ==
    /\ chip_out # <<>>
    /\ dev_callback = "scheduler"
    /\ api_reader = "running"
    /\ chip_out' = <<>>
    /\ parsed_with' = IF api_future = "pending" THEN <<uses_parity>> ELSE parsed_with
    /\ api_reader' = IF PacketValid(chip_out, uses_parity, FALSE) THEN "running"
                      ELSE "terminated"
    /\ api_future' = IF PacketValid(chip_out, uses_parity, FALSE) /\ api_future = "pending"
                      THEN "ready" ELSE api_future
    /\ api_response' = IF PacketValid(chip_out, uses_parity, FALSE) /\ api_future = "pending"
                        THEN [buffer |-> chip_out, has_parity |-> uses_parity]
                        ELSE api_response
    /\ UNCHANGED <<uses_parity, api_pc, api_op, api_i, api_ops, api_request,
                   zero_bytes, chip_in, api_result, dev_callback, hr_prev,
                   hr_promise, hr_seen, hr_packets>>
    /\ UNCHANGED notApi

\* .get() returns and the call checks the response; API::reset sets
\* uses_parity after softReset has returned normally.
ApiGet ==
    /\ api_pc = "await"
    /\ api_future = "ready"
    /\ api_result' = IF ResponseAccepted(api_op, api_response, uses_parity)
                      THEN "ok" ELSE "error"
    /\ uses_parity' = IF api_op.name = "softReset"
                         /\ ResponseAccepted(api_op, api_response, uses_parity)
                      THEN TRUE ELSE uses_parity
    /\ api_pc' = "idle"
    /\ UNCHANGED <<api_op, api_i, api_ops, api_request, zero_bytes, chip_in,
                   chip_out, api_future, api_response, parsed_with,
                   dev_callback, hr_prev, hr_promise, hr_seen, hr_packets,
                   api_reader>>
    /\ UNCHANGED notApi

\* API::reset(true): hardReset up to dev->setCallback(lambda)
ApiHardReset ==
    /\ api_pc = "idle"
    /\ api_ops < MaxOps
    /\ api_reader = "running"
    /\ api_op' = [name |-> "hardReset", channel |-> 0, mode |-> 0]
    /\ api_request' = NoPacket
    /\ hr_prev' = dev_callback
    /\ dev_callback' = "hardReset"
    /\ api_pc' = "hr_reset"
    /\ api_i' = 0
    /\ api_ops' = api_ops + 1
    /\ api_result' = "none"
    /\ api_future' = "none"
    /\ api_response' = NoPacket
    /\ parsed_with' = <<>>
    /\ zero_bytes' = 0
    /\ hr_seen' = {}
    /\ hr_packets' = 0
    /\ hr_promise' = "unset"
    /\ UNCHANGED <<uses_parity, chip_in, chip_out, api_reader>>
    /\ UNCHANGED notApi

\* API::hardReset: resettable->reset() returns, or throws and the catch
\* block restores the callback and rethrows.
HrReset(ok) ==
    /\ api_pc = "hr_reset"
    /\ api_pc' = IF ok THEN "hr_wait" ELSE "idle"
    /\ dev_callback' = IF ok THEN dev_callback ELSE hr_prev
    /\ api_result' = IF ok THEN "none" ELSE "error"
    /\ UNCHANGED <<uses_parity, api_op, api_i, api_ops, api_request,
                   zero_bytes, chip_in, chip_out, api_future, api_response,
                   parsed_with, hr_prev, hr_promise, hr_seen, hr_packets,
                   api_reader>>
    /\ UNCHANGED notApi

\* The device delivers a packet while hardReset is in progress.
ChipEmit(packet) ==
    /\ api_pc \in {"hr_reset", "hr_wait"}
    /\ chip_out = <<>>
    /\ hr_packets < MaxHrPackets
    /\ packet \in HardResetPackets
    /\ chip_out' = packet
    /\ hr_packets' = hr_packets + 1
    /\ UNCHANGED <<uses_parity, api_pc, api_op, api_i, api_ops, api_request,
                   zero_bytes, chip_in, api_future, api_response, parsed_with,
                   api_result, dev_callback, hr_prev, hr_promise, hr_seen,
                   api_reader>>
    /\ UNCHANGED notApi

\* The reader thread calls the callback of hardReset.  set_value on the
\* satisfied promise throws future_error, which the callback does not catch.
ReaderHardReset ==
    /\ chip_out # <<>>
    /\ dev_callback = "hardReset"
    /\ api_reader = "running"
    /\ chip_out' = <<>>
    /\ hr_seen' = hr_seen \cup {chip_out}
    /\ hr_promise' = IF HardResetAccepts(chip_out) THEN "set" ELSE hr_promise
    /\ api_reader' = IF HardResetAccepts(chip_out) /\ hr_promise = "set"
                      THEN "terminated" ELSE api_reader
    /\ UNCHANGED <<uses_parity, api_pc, api_op, api_i, api_ops, api_request,
                   zero_bytes, chip_in, api_future, api_response, parsed_with,
                   api_result, dev_callback, hr_prev, hr_packets>>
    /\ UNCHANGED notApi

\* API::hardReset: future.get() returns, dev->setCallback(prev); API::reset
\* then sets uses_parity.
HrReturn ==
    /\ api_pc = "hr_wait"
    /\ hr_promise = "set"
    /\ dev_callback' = hr_prev
    /\ uses_parity' = TRUE
    /\ api_result' = "ok"
    /\ api_pc' = "idle"
    /\ UNCHANGED <<api_op, api_i, api_ops, api_request, zero_bytes, chip_in,
                   chip_out, api_future, api_response, parsed_with, hr_prev,
                   hr_promise, hr_seen, hr_packets, api_reader>>
    /\ UNCHANGED notApi

NextApi ==
    \/ \E mode \in {0, 1} : ApiParitymode(mode)
    \/ PmWrite
    \/ PmSubmit
    \/ ApiSoftReset
    \/ SendZero
    \/ ResetSubmit
    \/ \E name \in ChannelCommands, channel \in ApiChannels : ApiCommand(name, channel)
    \/ \E packet \in ChipResponses(api_op, api_request) : ChipAnswer(packet)
    \/ ReaderRecv
    \/ ApiGet
    \/ ApiHardReset
    \/ \E ok \in BOOLEAN : HrReset(ok)
    \/ \E packet \in HardResetPackets : ChipEmit(packet)
    \/ ReaderHardReset
    \/ HrReturn

SpecApi == Init /\ [][NextApi]_vars


(***************************************************************************)
(* Observations used by the properties.                                    *)
(***************************************************************************)
\* The scheduling thread is about to make a pass.
RunEnabled == runner = "running" /\ process # <<>>

\* Positions of `submitted' whose request came from channel queue q.
FromQueue(q) == {n \in 1 .. Len(submitted) : queueIndex(submitted[n].packet) = q}

\* Positions of `submitted' that hold a channel request of type index t.
OfType(t) ==
    {n \in 1 .. Len(submitted) :
        /\ queueIndex(submitted[n].packet) # -1
        /\ typeIndex(submitted[n].packet) = t}

\* The queue a filed request waits in: -1 is the device queue.
Waiting(q) == IF q = -1 THEN device_queue ELSE channel_queue[q]

\* The ids (submission order) of the requests in a sequence of tuples.
IdsOf(seq) == {seq[n].packet.seq : n \in 1 .. Len(seq)}

\* A sequence of request tuples is in submission order.
Ascending(seq) ==
    \A m, n \in 1 .. Len(seq) : m < n => seq[m].packet.seq < seq[n].packet.seq

\* The entries of a sequence of request tuples that belong to queue q.
RECURSIVE Lane(_, _)
Lane(seq, q) ==
    IF seq = <<>> THEN <<>>
    ELSE IF queueIndex(Head(seq).packet) = q
         THEN <<Head(seq)>> \o Lane(Tail(seq), q)
         ELSE Lane(Tail(seq), q)

\* Number of callbacks of requests invoked so far.
RECURSIVE SumInvocations(_)
SumInvocations(c) == IF c = 0 THEN 0 ELSE invocations[c] + SumInvocations(c - 1)

(***************************************************************************)
(* C1: the k-th packet the device delivers is handed to the callback of    *)
(* the k-th request given to device.send: every packet of the device that  *)
(* run() has popped has invoked one callback, and the callback run() is    *)
(* about to invoke with packet number k belongs to the request that was    *)
(* the k-th to be sent.                                                    *)
(***************************************************************************)
C1_KthPacketToKthRequest ==
    /\ handled = SumInvocations(MaxRequests)
    /\ RunEnabled =>
          \A n \in 1 .. Len(NextPass.calls) :
              NextPass.calls[n].ord = NextPass.calls[n].seq

(***************************************************************************)
(* C2: the callback of a transmitted request is invoked exactly once: no   *)
(* callback is ever invoked twice, and when the device has delivered as    *)
(* many packets as were sent and run() has handled them all, every         *)
(* transmitted request has had its callback invoked.                       *)
(***************************************************************************)
C2_ExactlyOnce ==
    /\ \A c \in 1 .. MaxRequests : invocations[c] <= 1
    /\ (delivered = nsent /\ handled = delivered) =>
          \A c \in sent : invocations[c] = 1

(***************************************************************************)
(* C3: two requests A, B submitted in that order and filed in the same     *)
(* queue are transmitted in that order and answered in that order:         *)
(*  - every queue holds its requests in submission order, the requests of  *)
(*    queue q in `submitted' are in submission order and were all          *)
(*    submitted before those still waiting in q;                           *)
(*  - the request whose callback run() is about to invoke was submitted    *)
(*    before every other request of its queue that is still unanswered;    *)
(*  - a request that is nowhere in the scheduler any more was answered.    *)
(***************************************************************************)
C3_PerQueueOrder ==
    /\ \A q \in -1 .. Queues - 1 :
          /\ Ascending(Lane(submitted, q) \o Waiting(q))
          /\ IdsOf(Waiting(q)) \cap sent = {}
    /\ IdsOf(submitted) \subseteq sent
    /\ RunEnabled =>
          \A n \in 1 .. Len(NextPass.calls) :
              LET call == NextPass.calls[n]
              IN \A a \in IdsOf(Lane(submitted, call.queue) \o Waiting(call.queue)) :
                    call.callback <= a
    /\ \A c \in 1 .. nsubmit :
          \/ invocations[c] = 1
          \/ c \in IdsOf(submitted)
          \/ \E q \in -1 .. Queues - 1 : c \in IdsOf(Waiting(q))
          \/ \E n \in 1 .. Len(process) : process[n].callback = <<c>>

\* Two requests of one queue are in flight and the older is being answered.
C3_Witness ==
    /\ RunEnabled
    /\ \E n \in 1 .. Len(NextPass.calls) :
          LET call == NextPass.calls[n]
          IN /\ call.queue \in -1 .. Queues - 1
             /\ Len(Lane(submitted, call.queue)) >= 2
             /\ Lane(submitted, call.queue)[1].packet.seq = call.callback
             /\ Head(submitted).packet.seq = call.callback
             /\ queueIndex(submitted[2].packet) # call.queue

(***************************************************************************)
(* C4: at most 2N + 4 requests are transmitted and not yet answered.       *)
(***************************************************************************)
C4_TotalInFlight == Len(submitted) <= 2 * channels + 4

\* The bound is reached while a request is still waiting.
C4_Witness == Len(submitted) = 2 * channels + 4 /\ queued > 0

(***************************************************************************)
(* C5: for each type index (0: SPEECH and CONTROL with a channel, 1:       *)
(* CHANNEL) at most N + 2 channel requests of that type are in flight.     *)
(***************************************************************************)
C5_InFlightByType ==
    \A t \in {0, 1} : Cardinality(OfType(t)) <= channels + 2

\* The bound is reached for type index 0 while such a request is waiting.
C5_Witness ==
    /\ Cardinality(OfType(0)) = channels + 2
    /\ \E q \in 0 .. Queues - 1 :
          /\ channel_queue[q] # <<>>
          /\ typeIndex(Head(channel_queue[q]).packet) = 0

(***************************************************************************)
(* C6: at most 2 requests of any one channel queue are in flight, for      *)
(* every channel queue, the queue of channel 0 / SPEECH included.          *)
(***************************************************************************)
C6_InFlightByQueue ==
    \A q \in 0 .. Queues - 1 : Cardinality(FromQueue(q)) <= 2

(***************************************************************************)
(* C9: once the callback of stop() has fired, no request is left in the    *)
(* device queue, in a channel queue or in `submitted', and every request   *)
(* pushed before stop() was transmitted and its callback invoked.          *)
(***************************************************************************)
C9_StopDrains ==
    StopResolved =>
        /\ device_queue = <<>>
        /\ \A q \in 0 .. Queues - 1 : channel_queue[q] = <<>>
        /\ submitted = <<>>
        /\ \A c \in 1 .. nsubmit : c \in sent /\ invocations[c] = 1

\* stop() was called with requests unanswered and its callback has fired.
C9_Witness == StopResolved /\ stopPending >= 3 /\ nsubmit = stopPending + 2

(***************************************************************************)
(* C10: stop() returns when the chip has answered every packet sent: no    *)
(* state is reached in which stop() waits, the chip owes no answer and the *)
(* scheduling thread has nothing left to pop, unless the callback of       *)
(* stop() has fired and the thread has ended; and while requests wait in   *)
(* a queue, some request is in flight.                                     *)
(***************************************************************************)
C10_StopReturns ==
    /\ (stopper = "waiting" /\ chip = 0 /\ (process = <<>> \/ runner = "exited"))
          => (StopResolved /\ runner = "exited")
    /\ (queued > 0 => submitted # <<>>)


C8_FailedSendNotRecorded ==
    /\ DOMAIN fifo_submitted \subseteq fifo_accepted
    /\ \A n \in 1 .. Len(fifo_sends) :
          fifo_sends[n] \notin fifo_accepted =>
              Cardinality({m \in 1 .. Len(fifo_calls) :
                              fifo_calls[m] = [callback |-> n, tag |-> 0]}) = 1

(***************************************************************************)
(* C20: after finalize(b) the header length field equals the buffer length *)
(* minus 4 and the appended fields follow the header unchanged; when b is  *)
(* true the buffer ends with a PARITY field (tag 0x2f) whose value is the  *)
(* XOR of every byte of the buffer except the start byte and the value     *)
(* byte itself; when b is false nothing follows the appended fields.       *)
(***************************************************************************)
C20_FinalizeInvariant ==
    pk_phase = "finalized" =>
        LET buffer == pk.buffer
            n == Len(buffer)
        IN /\ getLength(buffer) = n - 4
           /\ SubSeq(buffer, 5, 4 + Len(pk_fields)) = pk_fields
           /\ pk.has_parity = pk_with
           /\ IF pk_with
              THEN /\ n = 4 + Len(pk_fields) + 2
                   /\ buffer[n - 1] = PARITY
                   /\ buffer[n] = parity(SubSeq(buffer, 2, n - 1))
              ELSE n = 4 + Len(pk_fields)

\* A SPEECH packet with three payload bytes was finalized with parity.
C20_Witness ==
    /\ pk_phase = "finalized"
    /\ pk_with
    /\ pk.buffer[4] = SPEECH
    /\ pk_fields = <<CHANNEL0, RATET, 47>>
    /\ pk.buffer[Len(pk.buffer)] # 0

(***************************************************************************)
(* Observations of the FifoScheduler.                                      *)
(***************************************************************************)
\* The positions of fifo_calls at which callback c was invoked.
CallsOf(c) == {n \in 1 .. Len(fifo_calls) : fifo_calls[n].callback = c}

\* The tags answered so far: a callback was invoked with a packet tagged t.
Answered == {fifo_calls[n].tag : n \in 1 .. Len(fifo_calls)} \ {0}

(***************************************************************************)
(* C11: stop() returns once every request whose send succeeded has been    *)
(* answered, failed submissions or not: while stop() waits with the reader *)
(* thread alive and no accepted request unanswered, the promise            *)
(* `terminated' has been set.                                              *)
(***************************************************************************)
C11_FifoStopReturns ==
    (/\ fifo_stopper = "waiting"
     /\ fifo_reader = "running"
     /\ wire = {}
     /\ fifo_accepted \subseteq Answered)
        => fifo_terminated # "unset"

(***************************************************************************)
(* C12: a malformed response for an outstanding request resolves the       *)
(* callback of that request (with an error) and removes the request from   *)
(* the outstanding set.                                                    *)
(***************************************************************************)
C12_MalformedReported ==
    \A t \in fifo_malformed :
        /\ t \notin DOMAIN fifo_submitted
        /\ \E n \in 1 .. Len(fifo_calls) : fifo_sends[fifo_calls[n].callback] = t

C14_AbandonedStaysRegistered ==
    \A c \in fifo_abandoned :
        LET t == fifo_sends[c]
        IN /\ \/ /\ t \in DOMAIN fifo_submitted
                 /\ fifo_submitted[t] = c
                 /\ CallsOf(c) = {}
              \/ /\ t \notin DOMAIN fifo_submitted
                 /\ Cardinality(CallsOf(c)) = 1
                 /\ \A n \in CallsOf(c) : fifo_calls[n].tag = t
           /\ \A n \in 1 .. Len(fifo_calls) :
                 (fifo_calls[n].callback > c /\ fifo_calls[n].tag # 0)
                     => fifo_sends[fifo_calls[n].callback] = fifo_calls[n].tag

\* The future of request 1 was given up, request 2 was submitted and
\* answered, and the late response to request 1 then reached callback 1.
C14_Witness ==
    /\ 1 \in fifo_abandoned
    /\ Len(fifo_calls) >= 2
    /\ fifo_calls[1] = [callback |-> 2, tag |-> 2]
    /\ fifo_calls[2] = [callback |-> 1, tag |-> 1]

(***************************************************************************)
(* C15: the response to the PARITYMODE request is parsed with the new      *)
(* parity setting: whenever recv has built the Packet of that response, it *)
(* did so with has_parity = (mode > 0).                                    *)
(***************************************************************************)
C15_ParsedWithNewParity ==
    (api_op.name = "paritymode" /\ parsed_with # <<>>)
        => parsed_with = <<api_op.mode > 0>>

\* paritymode(0) was called with parity on, and its response, which has no
\* parity field, was parsed and accepted.
C15_Witness ==
    /\ api_op.name = "paritymode"
    /\ api_op.mode = 0
    /\ api_request.has_parity
    /\ parsed_with = <<FALSE>>
    /\ api_result = "ok"

(***************************************************************************)
(* C16: when softReset submits the RESET packet it has handed exactly 3500 *)
(* zero bytes to device.send, in 350 groups of 10.                         *)
(***************************************************************************)
C16_ZeroBytesBeforeReset ==
    (api_op.name = "softReset" /\ api_pc = "await")
        => (zero_bytes = 3500 /\ api_i = 350)

(***************************************************************************)
(* C17: the RESET packet softReset submits ends with a parity field whose  *)
(* value is the XOR of the bytes between the start byte and the value,     *)
(* whatever device.uses_parity was when reset was called.                  *)
(***************************************************************************)
C17_ResetHasParity ==
    (api_op.name = "softReset" /\ api_pc = "await")
        => LET buffer == api_request.buffer
               n == Len(buffer)
           IN /\ n >= 6
              /\ buffer[n - 1] = PARITY
              /\ buffer[n] = parity(SubSeq(buffer, 2, n - 1))

(***************************************************************************)
(* C18: hardReset completes only on a CONTROL packet whose first field is  *)
(* READY, every other packet being discarded, and when hardReset has       *)
(* returned, normally or by exception, the callback of the device is the   *)
(* one that was installed before the call.                                 *)
(***************************************************************************)
C18_HardResetFilter ==
    api_op.name = "hardReset" =>
        /\ hr_promise = "set" =>
              \E p \in hr_seen : Len(p) >= 5 /\ p[4] = CONTROL /\ p[5] = READY
        /\ api_result = "ok" => hr_promise = "set"
        /\ api_pc = "idle" => (dev_callback = hr_prev /\ dev_callback = "scheduler")

\* hardReset returned after a SPEECH packet that starts with a READY field
\* had been discarded.
C18_Witness ==
    /\ api_op.name = "hardReset"
    /\ api_pc = "idle"
    /\ api_result = "ok"
    /\ \E p \in hr_seen : p[4] = SPEECH /\ p[5] = READY

(***************************************************************************)
(* C19: for each of ecmode, dcmode, ratet, ratep, init on channel c, the   *)
(* response whose fields are [CHANNELc, 0][cmd, 0] is accepted and a       *)
(* response whose first field names another channel, or has a status       *)
(* other than 0, is rejected.                                              *)
(***************************************************************************)
C19_ChannelPrefixChecked ==
    (api_op.name \in ChannelCommands /\ api_pc = "idle" /\ api_result # "none")
        => LET buffer == api_response.buffer
               fields == SubSeq(buffer, 5,
                                Len(buffer) - (IF api_response.has_parity
                                               THEN 2 ELSE 0))
               c == CHANNEL0 + api_op.channel
           IN /\ fields = <<c, 0, CmdField(api_op.name), 0>>
                    => api_result = "ok"
              /\ (fields[1] # c \/ fields[2] # 0) => api_result = "error"

(***************************************************************************)
(* Observations of a Packet that was built, finalized and parsed.          *)
(***************************************************************************)
\* The payload of a Packet: payloadLength() bytes after the header.
PayloadBytes(packet) ==
    SubSeq(packet.buffer, sizeofHeader + 1, sizeofHeader + payloadLength(packet))

\* The Packet as it was built, before finalize.
Built == PacketAppend(PacketNew(pk_type), pk_fields)

(***************************************************************************)
(* C21: a packet built from a type and a sequence of fields and finalized  *)
(* with parity is accepted by the parsing constructor with has_parity and  *)
(* check_parity set; the parsed packet has the type and the payload bytes  *)
(* that were built (the parity field is not part of the payload), reports  *)
(* the channel the built packet reports, and passes checkParity.           *)
(***************************************************************************)
C21_RoundTrip ==
    (pk_phase = "parsed" /\ pk_with /\ pk_args = <<TRUE, TRUE>>) =>
        /\ pk_parsed # NoPacket
        /\ pk_parsed.buffer[4] = pk_type
        /\ payloadLength(pk_parsed) = Len(pk_fields)
        /\ PayloadBytes(pk_parsed) = pk_fields
        /\ pk_channel = Packet_channel(Built)
        /\ checkParity(pk_parsed)

\* A CHANNEL packet for channel 1 with five payload bytes made the round
\* trip.
C21_Witness ==
    /\ pk_phase = "parsed"
    /\ pk_with
    /\ pk_args = <<TRUE, TRUE>>
    /\ pk_type = CHANNEL
    /\ pk_fields = <<CHANNEL1, RATET, 47, PARITYMODE, 0>>
    /\ pk_channel = <<1>>

(***************************************************************************)
(* C22 as stated: finalize(b) on a packet last finalized with the same b   *)
(* leaves the bytes as they are; finalize(false) on a packet finalized     *)
(* with parity removes the two parity bytes and rewrites the header        *)
(* length, which gives the bytes of the same fields finalized without      *)
(* parity; and the CONTROL packet with the single field PRODID, finalized  *)
(* with parity and then without, is 61 00 02 00 30.                        *)
(***************************************************************************)
\* finalize(b) after finalize(b) changes nothing.
FinalizeIdempotent ==
    (pk_phase = "finalized" /\ pk_phase' = "finalized" /\ pk_with' = pk_with)
        => pk' = pk

\* finalize(false) after finalize(true) removes the parity field.
FinalizeStrips ==
    (pk_phase = "finalized" /\ pk_phase' = "finalized" /\ pk_with /\ ~pk_with')
        => /\ Len(pk'.buffer) = Len(pk.buffer) - 2
           /\ SubSeq(pk'.buffer, 4, Len(pk'.buffer))
                = SubSeq(pk.buffer, 4, Len(pk.buffer) - 2)
           /\ pk'.buffer[1] = START_BYTE
           /\ getLength(pk'.buffer) = Len(pk'.buffer) - 4
           /\ pk' = finalize(Built, FALSE)

\* The packet of the example: CONTROL, Field(PRODID), finalized with parity.
ExampleStripped ==
    /\ pk_phase = "finalized" /\ pk_phase' = "finalized"
    /\ pk_with /\ ~pk_with'
    /\ pk_type = CONTROL
    /\ pk_fields = <<PRODID>>

C22_FinalizeAsStated ==
    [][/\ FinalizeIdempotent
       /\ FinalizeStrips
       /\ ExampleStripped => pk'.buffer = <<97, 0, 2, 0, 48>>]_vars

(***************************************************************************)
(* C22 amended: as above, with the bytes of the example as the code        *)
(* computes them: 61 00 03 00 30 2f 1c becomes 61 00 01 00 30.             *)
(***************************************************************************)
C22_FinalizeIdempotent ==
    [][/\ FinalizeIdempotent
       /\ FinalizeStrips
       /\ ExampleStripped => /\ pk.buffer = <<97, 0, 3, 0, 48, 47, 28>>
                             /\ pk'.buffer = <<97, 0, 1, 0, 48>>]_vars

\* The packet of the example was finalized with parity and then without.
C22_Witness ==
    /\ pk_phase = "finalized"
    /\ pk_prev = <<TRUE>>
    /\ ~pk_with
    /\ pk_type = CONTROL
    /\ pk_fields = <<PRODID>>
    /\ pk.buffer = <<97, 0, 1, 0, 48>>

(***************************************************************************)
(* C23: the parsing constructor accepts a byte string exactly when its     *)
(* first byte is 0x61, its type byte is 0, 1 or 2 and its header length is *)
(* the total length minus 4, and, with has_parity, it has at least 6 bytes *)
(* and the PARITY tag in the second-to-last byte, and, with check_parity   *)
(* too, its last byte is the XOR of the bytes between the start byte and   *)
(* the last byte; every other byte string makes it throw.                  *)
(***************************************************************************)
C23_ParseRejects ==
    rx_result # "none" =>
        LET n == Len(rx_bytes)
            wellFormed ==
                /\ n >= 4
                /\ rx_bytes[1] = 97
                /\ rx_bytes[4] \in {0, 1, 2}
                /\ rx_bytes[2] * 256 + rx_bytes[3] = n - 4
                /\ rx_args[1] =>
                      /\ n >= 6
                      /\ rx_bytes[n - 1] = 47
                      /\ rx_args[2] =>
                            rx_bytes[n] = parity(SubSeq(rx_bytes, 2, n - 1))
        IN (rx_result = "packet") <=> wellFormed

\* A SPEECH packet whose parity field holds the wrong value, and nothing
\* else wrong, was rejected with has_parity and check_parity set.
C23_Witness ==
    /\ rx_result = "error"
    /\ rx_args = <<TRUE, TRUE>>
    /\ rx_bytes = <<97, 0, 2, 2, 47, 0>>

(***************************************************************************)
(* C24: a packet of any type whose payload starts with the tag CHANNEL0,   *)
(* CHANNEL1 or CHANNEL2 reports the channel tag - 0x40; a packet whose     *)
(* payload starts with any other tag reports -1.                           *)
(***************************************************************************)
C24_Channel ==
    (pk_phase = "parsed" /\ pk_parsed # NoPacket
        /\ Len(pk_parsed.buffer) - 4 - (IF pk_args[1] THEN 2 ELSE 0) >= 1) =>
        LET tag == pk_parsed.buffer[5]
        IN /\ pk_parsed.buffer[4] \in {CONTROL, CHANNEL, SPEECH}
           /\ tag \in {64, 65, 66} => pk_channel = <<tag - 64>>
           /\ tag \notin {64, 65, 66} => pk_channel = <<-1>>

\* A SPEECH packet that starts with ChannelField(2) reported channel 2.
C24_Witness ==
    /\ pk_phase = "parsed"
    /\ pk_parsed # NoPacket
    /\ pk_type = SPEECH
    /\ pk_fields = <<CHANNEL2, GAIN>>
    /\ pk_channel = <<2>>

(***************************************************************************)
(* C25: an acquireChannel that returns (id, i) found that slot free and    *)
(* marks it busy, every slot of the device below i was busy, no other bit  *)
(* changes, and the slot was not handed out by an earlier acquireChannel   *)
(* without a releaseChannel of it since; a releaseChannel that returns     *)
(* leaves its slot free, so that it can be acquired again.                 *)
(***************************************************************************)
C25_AcquireRelease ==
    [][(dm_last' # dm_last /\ dm_last'.ok) =>
        LET id == dm_last'.id
            i == dm_last'.channel
        IN /\ dm_last'.op = "acquire" =>
                /\ id \in DOMAIN devices
                /\ i \in DOMAIN devices[id]
                /\ ~devices[id][i]
                /\ devices'[id][i]
                /\ \A j \in DOMAIN devices[id] : j < i => devices[id][j]
                /\ <<id, i>> \notin dm_held
                /\ \A d \in DOMAIN devices : \A j \in DOMAIN devices[d] :
                       <<d, j>> # <<id, i>> => devices'[d][j] = devices[d][j]
           /\ dm_last'.op = "release" =>
                /\ ~devices'[id][i]
                /\ \A d \in DOMAIN devices : \A j \in DOMAIN devices[d] :
                       <<d, j>> # <<id, i>> => devices'[d][j] = devices[d][j]]_vars

\* Slot 1 of a device with three channels was acquired, released and
\* acquired again while slot 0 stayed busy and slot 2 was free.
C25_Witness ==
    /\ dm_last.op = "acquire"
    /\ dm_last.ok
    /\ dm_last.channel = 1
    /\ <<dm_last.id, 1>> \in dm_released
    /\ <<dm_last.id, 0>> \notin dm_released
    /\ devices[dm_last.id][0]
    /\ ~devices[dm_last.id][2]

(***************************************************************************)
(* C26: acquireChannel fails exactly when every slot of every device is    *)
(* busy; releaseChannel fails for an unknown id and for a channel number   *)
(* that is not below the channel count of the device; add fails for an id  *)
(* that is present; a failing call changes no busy bit and no device.      *)
(***************************************************************************)
C26_FailuresChangeNothing ==
    [][dm_last' # dm_last =>
        LET id == dm_last'.id
            i == dm_last'.channel
        IN /\ dm_last'.op = "acquire" =>
                (~dm_last'.ok <=>
                    \A d \in DOMAIN devices : \A j \in DOMAIN devices[d] :
                        devices[d][j])
           /\ (dm_last'.op = "release" /\ id \notin DOMAIN devices)
                => ~dm_last'.ok
           /\ (dm_last'.op = "release" /\ id \in DOMAIN devices
                  /\ i >= Cardinality(DOMAIN devices[id]))
                => ~dm_last'.ok
           /\ (dm_last'.op = "add" /\ id \in DOMAIN devices) => ~dm_last'.ok
           /\ ~dm_last'.ok => (devices' = devices /\ dm_order' = dm_order)]_vars

\* With two devices attached and all four slots busy, acquireChannel
\* failed.
C26_Witness ==
    /\ dm_last.op = "acquire"
    /\ ~dm_last.ok
    /\ DOMAIN devices = {"a", "b"}
    /\ Cardinality(DOMAIN devices["a"]) = 1
    /\ Cardinality(DOMAIN devices["b"]) = 3
    /\ \A d \in DOMAIN devices : \A j \in DOMAIN devices[d] : devices[d][j]

(***************************************************************************)
(* C27: every response a bind callback writes goes to the stream its       *)
(* request was read from, carries the tag of that request, and holds the   *)
(* chip's reply to that request: the callback of the request that was the  *)
(* k-th to reach the chip is invoked with packet number k of the device.   *)
(* Stated of the callbacks the scheduling thread is about to invoke.       *)
(***************************************************************************)
C27_BindResponse ==
    RunEnabled =>
        LET calls == PassCalls(NextPass)
        IN \A n \in 1 .. Len(calls) :
              LET c == calls[n].callback
                  written == BindWrite(c, calls[n].seq)
              IN /\ written.stream = bind_reqs[c].stream
                 /\ written.tag = bind_reqs[c].tag
                 /\ c \in sent \cup {NextPass.out[m].callback[1] :
                                       m \in 1 .. Len(NextPass.out)}
                 /\ calls[n].seq >= 1
                 /\ written.data = calls[n].ord

(***************************************************************************)
(* Observations of the serial reader.                                      *)
(***************************************************************************)
\* The reader thread sleeps in select and only a byte from the serial port
\* (or the loss of the link) can wake it.
SerBlocked ==
    ser_reader = "running" /\ ser_pc = "select" /\ Ready(ser_fds) = {}

(***************************************************************************)
(* C28: once stop has written to the cancellation pipe the reader thread   *)
(* is never left sleeping in a select that only the serial port can end,   *)
(* neither between two packets nor with a part of a packet received: it    *)
(* sees the pipe, returns, and join returns with no further byte arriving. *)
(***************************************************************************)
C28_StopWakesReader ==
    ser_stop = "joining" =>
        /\ ~ser_partial => ~SerBlocked
        /\ ser_partial => ~SerBlocked

(***************************************************************************)
(* C29: the reader thread leaves packetReceiver by a normal return only    *)
(* when stop has been requested; the loss of the link (end of file or a    *)
(* read error) ends it with an exception.                                  *)
(***************************************************************************)
C29_LinkLossFatal == ser_stop = "idle" => ser_reader # "returned"

(***************************************************************************)
(* C30: a string that holds one integer in 0 .. 255 and nothing else makes *)
(* a RATET rate with that index; a string that holds six integers in       *)
(* 0 .. 65535 separated by commas and nothing else makes a RATEP rate with *)
(* those six words, whatever the first one is; every other string is       *)
(* rejected.                                                               *)
(***************************************************************************)
C30_RateString ==
    rate_result # NoRate =>
        LET IsInt(w, max) == ~w.junk /\ w.val >= 0 /\ w.val <= max
        IN IF Len(rate_words) = 1 /\ IsInt(rate_words[1], 255)
           THEN rate_result = [type |-> "RATET", index |-> rate_words[1].val,
                               rcw |-> <<>>]
           ELSE IF /\ Len(rate_words) = 6
                   /\ \A i \in 1 .. 6 : IsInt(rate_words[i], 65535)
           THEN rate_result = [type |-> "RATEP", index |-> 0,
                               rcw |-> [i \in 1 .. 6 |-> rate_words[i].val]]
           ELSE rate_result.type = "error"

(***************************************************************************)
(* C31.  Device-queue priority: whenever run() gives device.send a request *)
(* taken from a channel queue, the device queue is empty at that moment or *)
(* its head fails canSend.  Stated on the pass run() is about to make:     *)
(* st.at holds the queues and counters at each send of the round-robin     *)
(* loop.                                                                   *)
(***************************************************************************)
C31_DeviceQueueFirst ==
    RunEnabled =>
        \A n \in 1 .. Len(NextPass.at) :
            LET m == NextPass.at[n]
            IN \/ m.dq = <<>>
               \/ ~canSend(Head(m.dq).packet, m.sub, m.bt, m.bq)

\* A pass sends a channel request while a device-global request stays in the
\* device queue, inadmissible.
C31_Witness ==
    /\ RunEnabled
    /\ NextPass.at # <<>>
    /\ NextPass.at[1].dq # <<>>

(***************************************************************************)
(* C32.  As stated: once a device-global control request is in the device  *)
(* queue, no channel request is given to device.send before it, i.e. the   *)
(* round-robin loop sends nothing while the device queue holds a request.  *)
(***************************************************************************)
C32_ControlBeforeChannel ==
    RunEnabled =>
        \A n \in 1 .. Len(NextPass.at) : NextPass.at[n].dq = <<>>

(***************************************************************************)
(* C32, amended.  Once a device-global control request is in the device    *)
(* queue, a channel request is given to device.send before it only while   *)
(* the control request fails canSend: the total number of requests in      *)
(* flight or the number of SPEECH-lane requests in flight is at its bound. *)
(***************************************************************************)
C32_ControlBeforeAdmissibleChannel ==
    RunEnabled =>
        \A n \in 1 .. Len(NextPass.at) :
            LET m == NextPass.at[n]
            IN \A k \in 1 .. Len(m.dq) :
                  \/ Len(m.sub) >= 2 * channels + 4
                  \/ m.bt[0] >= channels + 2

\* A CHANNEL request is sent while a control request waits in the device
\* queue behind channels + 2 SPEECH-lane requests in flight.
C32_Witness ==
    /\ RunEnabled
    /\ NextPass.at # <<>>
    /\ NextPass.at[1].dq # <<>>
    /\ NextPass.at[1].request.packet.type = CHANNEL
    /\ NextPass.at[1].bt[0] >= channels + 2

\* The marked request waits at the head of a channel queue.
MarkedWaiting ==
    \E q \in 0 .. Queues - 1 :
        channel_queue[q] # <<>> /\ Head(channel_queue[q]).packet.seq = 1

(***************************************************************************)
(* C33.  Fairness among channels: a request waiting at the head of a       *)
(* channel queue is eventually given to device.send, when the chip answers *)
(* every packet written to it, also when the clients keep the other        *)
(* channel queues busy for ever.                                           *)
(***************************************************************************)
C33_HeadEventuallySent == MarkedWaiting ~> Marked(submitted)

(***************************************************************************)
(* C34.  Work conservation: when the scheduling thread has handled an      *)
(* event and waits in process.pop() again, the head of the device queue    *)
(* and the head of every channel queue fail canSend.  The queues and       *)
(* counters change in run() only, so this is a property of every state.    *)
(***************************************************************************)
C34_NothingAdmissibleLeft ==
    /\ device_queue # <<>> =>
           ~canSend(Head(device_queue).packet, submitted, submitted_by_type,
                    submitted_by_queue)
    /\ \A q \in 0 .. Queues - 1 :
           channel_queue[q] # <<>> =>
               ~canSend(Head(channel_queue[q]).packet, submitted,
                        submitted_by_type, submitted_by_queue)

\* The thread waits for an event with requests in every channel queue.
C34_Witness ==
    /\ runner = "running"
    /\ process = <<>>
    /\ \A q \in 0 .. Queues - 1 : channel_queue[q] # <<>>

RECURSIVE SumOfSizes(_)
SumOfSizes(q) ==
    IF q < 0 THEN 0 ELSE Len(channel_queue[q]) + SumOfSizes(q - 1)

C37_DevicePacketIsResponse ==
    RunEnabled =>
        LET tuple == Head(process)
            st == HandleEvent(RunState, tuple)
        IN /\ (IsResponse(tuple) /\ submitted # <<>>) => st.sub = Tail(submitted)
           /\ (st.quit /\ ~quit) => tuple.callback = StopCallback
(***************************************************************************)
(* C38: with a MultiQueueScheduler running on a FifoDevice, device.send is *)
(* never executing in two threads at the same time, and every byte written *)
(* to the device is written by the scheduling thread, a soft reset issued  *)
(* while requests are queued or in flight included.                        *)
(***************************************************************************)
C38_SingleSender ==
    /\ ~(snd_runner = "send" /\ snd_api = "send")
    /\ snd_writers \subseteq {"runner"}

(***************************************************************************)
(* C39: with bind handlers running at the same time, no slot of the        *)
(* channel pool is held by two handlers at once, and the handlers that     *)
(* hold a slot are never more than the channels of the devices.            *)
(***************************************************************************)
C39_PoolExclusive ==
    /\ \A t, u \in PoolHolders : t # u => pool_slot[t] # pool_slot[u]
    /\ Cardinality(PoolHolders) <= Cardinality(PoolSlots)

(***************************************************************************)
(* C40: a bind session releases its channel and its handler returns only   *)
(* after the callback of every request it submitted has been invoked; no   *)
(* callback of a session writes to the stream of the session after the     *)
(* handler has returned; no other session holds the channel of a session   *)
(* while a callback of that session is pending.                            *)
(***************************************************************************)
C40_SessionEnd ==
    /\ \A stream \in Streams :
          sess_state[stream] = "returned" => SessionPending(stream) = {}
    /\ RunEnabled =>
          LET calls == PassCalls(NextPass)
          IN \A n \in 1 .. Len(calls) :
                calls[n].callback \in 1 .. Len(bind_reqs) =>
                    sess_state[bind_reqs[calls[n].callback].stream] # "returned"
    /\ \A stream, other \in Streams :
          (/\ stream # other
           /\ SessionPending(stream) # {}
           /\ sess_state[other] = "open") =>
              sess_channel[other] # sess_channel[stream]

====
